---- MODULE Spec2Model ----
(***************************************************************************)
(* Model of strothj/chargebee-types: a generator that reads the provider's *)
(* HTML documentation as hast trees and derives TypeScript declarations.   *)
(*                                                                         *)
(* Strings are TLA+ strings handled character by character (Len, SubSeq,   *)
(* \o), document nodes are records, and every generator function of        *)
(* src/src/index.ts is an operator computed the way the code computes it.  *)
(***************************************************************************)
EXTENDS Integers, Sequences, FiniteSets, TLC

VARIABLES
    \* snake_case -> PascalCase conversion (index.ts, parseResource.ts)
    snakeCase, pascalIndex, pascalParse, pascalTwice, pascalParseTwice,
    \* one property fragment handed to generateInterfacePropertySignature
    \* and, in parseResource.ts, to parsePropertyElements
    propertyElement, signatureResult, parseResult,
    \* one resource page handed to generateModule
    modulePage, moduleResult,
    \* one call of getAdjacentElement: the parent, the position of the node
    \* passed among its children (0: a node that is no child of it)
    adjacentParent, adjacentPosition, adjacentResult, adjacentIndexedResult,
    \* a run of main(): program counter, cache directory, discovery, output
    pc, run, cacheFiles, indexPageTree, resourcePathSegments, pending,
    modulePageTree, statements, namespaceExportMappings, requests, io,
    extracted, failure, definitionFile, writes, firstOutput

caseVars == <<snakeCase, pascalIndex, pascalParse, pascalTwice,
              pascalParseTwice>>
signatureVars == <<propertyElement, signatureResult, parseResult>>
moduleVars == <<modulePage, moduleResult>>
adjacentVars == <<adjacentParent, adjacentPosition, adjacentResult,
                  adjacentIndexedResult>>
mainVars == <<pc, run, cacheFiles, indexPageTree, resourcePathSegments,
              pending, modulePageTree, statements, namespaceExportMappings,
              requests, io, extracted, failure, definitionFile, writes,
              firstOutput>>
vars == <<caseVars, signatureVars, moduleVars, adjacentVars, mainVars>>

(***************************************************************************)
(* Bounds                                                                  *)
(***************************************************************************)
\* most children of the parent getAdjacentElement is called on
MaxChildren == 3
\* longest snake_case input of the conversion runs
MaxCaseLen == 4
\* most anchors on an index page
MaxAnchors == 3
\* runs of main() against one cache directory
MaxRuns == 2

(***************************************************************************)
(* Optional values: <<>> is null/undefined, <<v>> is the value v.          *)
(***************************************************************************)
None == <<>>
Some(v) == <<v>>

(***************************************************************************)
(* JavaScript string and array primitives, character by character.         *)
(***************************************************************************)
Min(S) == CHOOSE m \in S : \A n \in S : m <= n

\* the characters from..to of s (String.prototype.slice, 1-based, inclusive);
\* out-of-range bounds are clamped and an empty range is ""
Slice(s, from, to) ==
    LET lo == IF from < 1 THEN 1 ELSE from
        hi == IF to > Len(s) THEN Len(s) ELSE to
    IN  IF lo > hi THEN "" ELSE SubSeq(s, lo, hi)

Char(s, i) == Slice(s, i, i)

\* String.prototype.indexOf(sub, from), 1-based; 0 when absent
IndexOf(s, sub, from) ==
    LET hits == {i \in from..(Len(s) - Len(sub) + 1) :
                    Slice(s, i, i + Len(sub) - 1) = sub}
    IN  IF hits = {} THEN 0 ELSE Min(hits)

\* String.prototype.includes
StrIncludes(s, sub) == IndexOf(s, sub, 1) # 0

\* Array.prototype.includes
ArrIncludes(arr, v) == \E i \in DOMAIN arr : arr[i] = v

\* String.prototype.split with a non-empty separator
RECURSIVE Split(_, _)
Split(s, sep) ==
    LET i == IndexOf(s, sep, 1)
    IN  IF i = 0 THEN <<s>>
        ELSE <<Slice(s, 1, i - 1)>> \o Split(Slice(s, i + Len(sep), Len(s)), sep)

\* Array.prototype.join
RECURSIVE Join(_, _)
Join(arr, sep) ==
    IF arr = <<>> THEN ""
    ELSE IF Len(arr) = 1 THEN arr[1]
    ELSE arr[1] \o sep \o Join(Tail(arr), sep)

IsSpace(c) == c \in {" ", "\t", "\n"}

\* String.prototype.trim
RECURSIVE TrimStart(_)
TrimStart(s) ==
    IF Len(s) > 0 /\ IsSpace(Char(s, 1)) THEN TrimStart(Slice(s, 2, Len(s))) ELSE s
RECURSIVE TrimEnd(_)
TrimEnd(s) ==
    IF Len(s) > 0 /\ IsSpace(Char(s, Len(s))) THEN TrimEnd(Slice(s, 1, Len(s) - 1)) ELSE s
Trim(s) == TrimEnd(TrimStart(s))

\* String.prototype.replace with a string pattern: first occurrence only
ReplaceFirst(s, pat, rep) ==
    LET i == IndexOf(s, pat, 1)
    IN  IF i = 0 THEN s
        ELSE Slice(s, 1, i - 1) \o rep \o Slice(s, i + Len(pat), Len(s))

LowerCaseLetters == "abcdefghijklmnopqrstuvwxyz"
UpperCaseLetters == "ABCDEFGHIJKLMNOPQRSTUVWXYZ"

\* String.prototype.toUpperCase on the (at most one character) slice(0, 1)
ToUpperCase(c) ==
    LET i == IF Len(c) = 1 THEN IndexOf(LowerCaseLetters, c, 1) ELSE 0
    IN  IF i = 0 THEN c ELSE Char(UpperCaseLetters, i)

\* the characters of s all belong to the class
AllChars(s, class) == \A i \in 1..Len(s) : StrIncludes(class, Char(s, i))

(***************************************************************************)
(* snake_case -> PascalCase, both copies.                                  *)
(***************************************************************************)
\* segment.slice(0, 1).toUpperCase().concat(segment.slice(1))
CapitalizeSegment(segment) ==
    ToUpperCase(Slice(segment, 1, 1)) \o Slice(segment, 2, Len(segment))

\* a converter that repeats the first character (slice(0) for slice(1))
SnakeCaseToPascalCaseSliceBug(s) ==
    LET segments == Split(s, "_")
    IN  Join([i \in DOMAIN segments |->
                 ToUpperCase(Slice(segments[i], 1, 1)) \o segments[i]], "")

snakeCaseToPascalCase(s) ==
    LET segments == Split(s, "_")
    IN  Join([i \in DOMAIN segments |-> CapitalizeSegment(segments[i])], "")

\* `${segment.slice(0, 1).toUpperCase()}${segment.slice(1)}`
fromSnakeCaseToPascalCase(s) ==
    LET segments == Split(s, "_")
    IN  Join([i \in DOMAIN segments |->
                 ToUpperCase(Slice(segments[i], 1, 1))
                     \o Slice(segments[i], 2, Len(segments[i]))], "")

\* underscore-delimited lowercase strings of at most n characters
CaseAlphabet == {"a", "b", "_"}
RECURSIVE SnakeStrings(_)
SnakeStrings(n) ==
    IF n = 0 THEN {""}
    ELSE LET shorter == SnakeStrings(n - 1)
         IN  shorter \cup {s \o c : s \in shorter, c \in CaseAlphabet}

(***************************************************************************)
(* hast document nodes.  Every node is a record of the same shape;         *)
(* className is the class list of an element (empty when it has none),     *)
(* nid is the identity of the node object: the parser gives every node of  *)
(* a tree its own object, so two nodes are the same object (===) exactly   *)
(* when their nid agree, whatever their contents.                          *)
(***************************************************************************)
Node(type, tagName, className, href, id, value, children) ==
    [type |-> type, tagName |-> tagName, className |-> className,
     href |-> href, id |-> id, value |-> value, children |-> children,
     nid |-> <<>>]

Element(tagName, className, children) ==
    Node("element", tagName, className, "", "", "", children)
Anchor(className, href, children) ==
    Node("element", "a", className, href, "", "", children)
Heading(id, children) == Node("element", "h4", <<>>, "", id, "", children)
Text(value) == Node("text", "", <<>>, "", "", value, <<>>)
Comment(value) == Node("comment", "", <<>>, "", "", value, <<>>)
Root(children) == Node("root", "", <<>>, "", "", "", children)

\* element.properties?.className?.includes(name)
HasClass(node, name) == ArrIncludes(node.className, name)

\* children.find((child) => child.type === "text")
FirstTextChild(node) ==
    LET texts == SelectSeq(node.children, LAMBDA c : c.type = "text")
    IN  IF texts = <<>> THEN None ELSE Some(texts[1])

\* children.find / children.filter on element children carrying a class
ChildElementsWithClass(node, name) ==
    SelectSeq(node.children, LAMBDA c : c.type = "element" /\ HasClass(c, name))

(***************************************************************************)
(* unist-util-visit: the nodes of a tree in depth-first pre-order, the     *)
(* root included, each with its position among its parent's children       *)
(* (1-based here) and its parent.  No visitor of the program returns a     *)
(* value, so a visit is never cut short unless the visitor throws.         *)
(***************************************************************************)
RECURSIVE VisitNode(_, _, _)
RECURSIVE VisitChildren(_, _)
VisitNode(node, index, parent) ==
    <<[node |-> node, index |-> index, parent |-> parent]>>
        \o VisitChildren(node, 1)
VisitChildren(parent, i) ==
    IF i > Len(parent.children) THEN <<>>
    ELSE VisitNode(parent.children[i], i, Some(parent))
             \o VisitChildren(parent, i + 1)

Visit(tree, type) ==
    SelectSeq(VisitNode(tree, 0, None), LAMBDA e : e.node.type = type)

(***************************************************************************)
(* TypeScript nodes built by the generator.                                *)
(***************************************************************************)
KeywordType(keyword) == [kind |-> "keyword", keyword |-> keyword]
ArrayType(elementType) == [kind |-> "array", elementType |-> elementType]
TypeLiteral(members) == [kind |-> "typeLiteral", members |-> members]
UnionType(literals) == [kind |-> "union", literals |-> literals]
TypeReference(typeName) == [kind |-> "reference", typeName |-> typeName]

\* ts.createPropertySignature(undefined, name, questionToken, type, undefined)
PropertySignature(name, optional, type) ==
    [name |-> name, optional |-> optional, type |-> type]

\* a function result: the value it returns, or the error it throws
Return(value) == [error |-> "", value |-> value]
Throw(message) == [error |-> message, value |-> <<>>]
Threw(result) == result.error # ""

\* const value = ...; the rest of the function reads the value
With(value, Rest(_)) == Rest(value)

\* const value = f(...): a throw of f ends the caller, which otherwise goes
\* on with what f returned
Bind(result, Rest(_)) == IF Threw(result) THEN result ELSE Rest(result.value)

(***************************************************************************)
(* generateInterfacePropertySignature (index.ts 55-394)                    *)
(***************************************************************************)
\* definitionText.value.split(", ").map((segment) => segment.trim())
Definitions(definitionText) ==
    LET segments == Split(definitionText, ", ")
    IN  [i \in DOMAIN segments |-> Trim(segments[i])]

\* the definition tokens that select the filter property set (263-273)
FilterDefinitions ==
    {"string filter", "enumerated string filter", "integer filter",
     "timestamp(UTC) in seconds filter", "boolean filter", "in cents filter"}

\* the definition tokens typed as number (327-334)
NumberDefinitions ==
    {"integer", "in cents", "timestamp(UTC) in seconds", "bigdecimal",
     "long", "double"}

\* the name of a direct definition: the first text, in pre-order, whose
\* parent is a samp element (158-169)
DirectPropertyName(propertyItemElement) ==
    LET texts == SelectSeq(Visit(propertyItemElement, "text"),
                     LAMBDA e : /\ e.parent # None
                                /\ e.parent[1].type = "element"
                                /\ e.parent[1].tagName = "samp")
    IN  IF texts = <<>> THEN Return(None) ELSE Return(Some(texts[1].node.value))

\* the name of an interface reference: the text of the last link with a
\* target; a link without text throws (170-187)
ReferencePropertyName(propertyItemElement) ==
    LET links == SelectSeq(Visit(propertyItemElement, "element"),
                     LAMBDA e : e.node.tagName = "a" /\ e.node.href # "")
    IN  IF \E i \in DOMAIN links : FirstTextChild(links[i].node) = None
        THEN Throw("Failed to retrieve interface reference property name.")
        ELSE IF links = <<>> THEN Return(None)
        ELSE Return(Some(FirstTextChild(links[Len(links)].node)[1].value))

\* the first dfn.text-muted element under the description, in pre-order
DefinitionElement(propertyDescriptionElement) ==
    LET dfns == SelectSeq(Visit(propertyDescriptionElement, "element"),
                    LAMBDA e : /\ e.node.tagName = "dfn"
                               /\ HasClass(e.node, "text-muted"))
    IN  IF dfns = <<>> THEN None ELSE Some(dfns[1].node)

\* the bold elements of a description that label the operator list
IsOperatorsLabel(element) ==
    /\ element.tagName = "b"
    /\ element.children[1].type = "text"
    /\ StrIncludes(element.children[1].value, "Supported operators")

\* a list of operators split at the commas alone
OperatorItemsAtCommas(value) == Split(value, ",")

\* parentElement.children[index + 1].value.split(", ") (292-294)
OperatorItems(value) == Split(value, ", ")

\* the operators of a filter property (275-298): asc/desc for sort_by,
\* otherwise the ", "-separated text of the node after the last bold
\* "Supported operators" label of the description
FilterOperators(propertyName, propertyDescriptionElement) ==
    IF propertyName = "sort_by" THEN Return(Some(<<"asc", "desc">>))
    ELSE
    LET bolds == SelectSeq(Visit(propertyDescriptionElement, "element"),
                     LAMBDA e : e.node.tagName = "b")
        \* element.children[0].type on a childless element
        Childless(e) == e.node.children = <<>>
        \* parentElement.children[index + 1].value.split on a missing node
        \* or on an element, which has no value
        NoOperatorsText(e) ==
            \/ e.parent = None
            \/ e.index + 1 > Len(e.parent[1].children)
            \/ e.parent[1].children[e.index + 1].type = "element"
        labels == SelectSeq(bolds,
                      LAMBDA e : ~Childless(e) /\ IsOperatorsLabel(e.node))
    IN  IF \/ \E i \in DOMAIN bolds : Childless(bolds[i])
           \/ \E i \in DOMAIN labels : NoOperatorsText(labels[i])
        THEN Throw("TypeError")
        ELSE IF labels = <<>> THEN Return(None)
        ELSE LET last == labels[Len(labels)]
             IN  Return(Some(OperatorItems(
                                 last.parent[1].children[last.index + 1].value)))

\* the values of a sequence without the repetitions
RECURSIVE Distinct(_)
Distinct(values) ==
    IF values = <<>> THEN <<>>
    ELSE LET front == Distinct(SubSeq(values, 1, Len(values) - 1))
             last == values[Len(values)]
         IN  IF ArrIncludes(front, last) THEN front ELSE Append(front, last)

\* enumerated values collected into a set of distinct values
EnumValuesDistinct(propertyDescriptionElement) ==
    LET samples == SelectSeq(Visit(propertyDescriptionElement, "element"),
                       LAMBDA e : /\ e.node.tagName = "samp"
                                  /\ HasClass(e.node, "enum"))
    IN  IF \E i \in DOMAIN samples : FirstTextChild(samples[i].node) = None
        THEN Throw("Unable to parse enum value.")
        ELSE Return(Distinct([i \in DOMAIN samples |->
                                 FirstTextChild(samples[i].node)[1].value]))

\* the values of an enumerated string (354-369): the text of every
\* samp.enum element under the description, in pre-order
EnumValues(propertyDescriptionElement) ==
    LET samples == SelectSeq(Visit(propertyDescriptionElement, "element"),
                       LAMBDA e : /\ e.node.tagName = "samp"
                                  /\ HasClass(e.node, "enum"))
    IN  IF \E i \in DOMAIN samples : FirstTextChild(samples[i].node) = None
        THEN Throw("Unable to parse enum value.")
        ELSE Return([i \in DOMAIN samples |->
                        FirstTextChild(samples[i].node)[1].value])

\* a correction that tests the element type instead of the array type
CorrectedElementName(interfaceName) ==
    IF interfaceName = "UnbilledCharge" THEN "UnbilledChargeEstimate"
    ELSE interfaceName

\* the documentation names the wrong type for lists of unbilled charges
\* (248-254)
CorrectedInterfaceName(interfaceName) ==
    IF interfaceName = "UnbilledCharge[]" THEN "UnbilledChargeEstimate[]"
    ELSE interfaceName

\* a type name taken from the first token, optional or not
InterfaceNameOfFirstToken(definitions) ==
    IF Slice(definitions[1], 1, 8) = "list of "
    THEN CorrectedInterfaceName(
             snakeCaseToPascalCase(Slice(definitions[1], 9, Len(definitions[1])))
                 \o "[]")
    ELSE CorrectedInterfaceName(snakeCaseToPascalCase(definitions[1]))

\* the type name of an interface reference (240-254)
InterfaceName(definitions) ==
    LET interfaceNameDefinition ==
            SelectSeq(definitions, LAMBDA d : d # "optional")[1]
        interfaceName ==
            IF Slice(interfaceNameDefinition, 1, 8) = "list of "
            THEN snakeCaseToPascalCase(
                     Slice(interfaceNameDefinition, 9,
                           Len(interfaceNameDefinition))) \o "[]"
            ELSE snakeCaseToPascalCase(interfaceNameDefinition)
    IN  CorrectedInterfaceName(interfaceName)

\* a test of the first definition only
IsOptionalFirst(definitions) == definitions[1] = "optional"

\* definitions.includes("optional") (230)
IsOptional(definitions) == ArrIncludes(definitions, "optional")

\* a base name taken as written
FilterNameAsWritten(propertyName) == propertyName

\* propertyName.trim().replace("[", "") (274)
FilterName(propertyName) == ReplaceFirst(Trim(propertyName), "[", "")

\* one field per operator, named `${propertyName}[${operator}]` (299-307)
FilterSignatures(propertyName, operators, isOptional) ==
    [i \in DOMAIN operators |->
        PropertySignature(propertyName \o "[" \o operators[i] \o "]",
                          isOptional, KeywordType("unknown"))]

\* the state of the visit over a sub-group fragment (60-62)
SubGroupStart ==
    [propertyName |-> None, isArray |-> None, propertySignatures |-> None,
     error |-> ""]

\* the text of the strong-styled texts of a list item: the last one wins
\* (73-83)
StrongText(listItemElement, propertyName) ==
    LET texts == SelectSeq(Visit(listItemElement, "text"),
                     LAMBDA e : e.parent # None /\ e.parent[1].tagName = "strong")
    IN  IF texts = <<>> THEN propertyName
        ELSE Some(texts[Len(texts)].node.value)

\* the visitor of the elements of a list head (66-101)
RECURSIVE ListHeadVisit(_, _, _)
ListHeadVisit(elements, i, st) ==
    IF i > Len(elements) THEN st
    ELSE
    LET listHeadChildElement == elements[i].node
        listDescriptionText == FirstTextChild(listHeadChildElement)
        next ==
            IF /\ st.propertyName = None
               /\ HasClass(listHeadChildElement, "cb-list-item")
            THEN [st EXCEPT !.propertyName =
                     StrongText(listHeadChildElement, st.propertyName)]
            ELSE IF /\ st.isArray = None
                    /\ HasClass(listHeadChildElement, "cb-list-desc")
            THEN IF listDescriptionText = None THEN st
                 ELSE [st EXCEPT !.isArray =
                          Some(StrIncludes(listDescriptionText[1].value, "Array"))]
            ELSE st
    IN  ListHeadVisit(elements, i + 1, next)

RECURSIVE generateInterfacePropertySignature(_)
RECURSIVE FlatSignatures(_, _)
RECURSIVE FirstSignatures(_, _)
RECURSIVE SubGroupVisit(_, _, _)

\* propertyElements.map(generateInterfacePropertySignature).flat(1); the
\* first child that throws ends the map
FlatSignatures(propertyElements, i) ==
    IF i > Len(propertyElements) THEN Return(<<>>)
    ELSE Bind(generateInterfacePropertySignature(propertyElements[i]),
              LAMBDA head :
                  Bind(FlatSignatures(propertyElements, i + 1),
                       LAMBDA rest : Return(head \o rest)))

\* subPropertyElements.map((e) => generateInterfacePropertySignature(e)[0])
\* (316-319): only the first signature of each child is kept
FirstSignatures(propertyElements, i) ==
    IF i > Len(propertyElements) THEN Return(<<>>)
    ELSE Bind(generateInterfacePropertySignature(propertyElements[i]),
              LAMBDA head :
                  Bind(FirstSignatures(propertyElements, i + 1),
                       LAMBDA rest : Return(<<head[1]>> \o rest)))

\* the visitor of the elements of a sub-group fragment (63-119)
SubGroupVisit(elements, i, st) ==
    IF i > Len(elements) \/ st.error # "" THEN st
    ELSE
    LET element == elements[i].node
        next ==
            IF HasClass(element, "cb-list-head")
            THEN ListHeadVisit(Visit(element, "element"), 1, st)
            ELSE IF /\ st.propertySignatures = None
                    /\ HasClass(element, "collapse")
            THEN With(FlatSignatures(
                          ChildElementsWithClass(element, "cb-sublist-action"), 1),
                      LAMBDA signatures :
                          IF Threw(signatures)
                          THEN [st EXCEPT !.error = signatures.error]
                          ELSE [st EXCEPT !.propertySignatures =
                                   Some(signatures.value)])
            ELSE st
    IN  SubGroupVisit(elements, i + 1, next)

\* the sub-group branch (58-139)
SubGroupSignature(propertyElement_) ==
    With(SubGroupVisit(Visit(propertyElement_, "element"), 1, SubGroupStart),
         LAMBDA st :
        IF st.error # "" THEN Throw(st.error)
        ELSE IF st.propertyName = None THEN Throw("Unable to parse property name.")
        ELSE IF st.isArray = None THEN Throw("Unable to isArray.")
        ELSE IF st.propertySignatures = None
        THEN Throw("Unable to parse property signatures.")
        ELSE LET typeLiteralNode == TypeLiteral(st.propertySignatures[1])
             IN  Return(<<PropertySignature(
                             st.propertyName[1], TRUE,
                             IF st.isArray[1] THEN ArrayType(typeLiteralNode)
                             ELSE typeLiteralNode)>>))

\* an array type that falls back to unknown elements for any other field
JsonArrayTypeLenient(propertyName) ==
    IF propertyName = "notes" THEN Return(ArrayType(KeywordType("string")))
    ELSE Return(ArrayType(KeywordType("unknown")))

\* the type of a jsonarray, known for two fields only (340-352)
JsonArrayType(propertyName) ==
    IF propertyName = "notes" THEN Return(ArrayType(KeywordType("string")))
    ELSE IF propertyName = "exemption_details"
    THEN Return(ArrayType(KeywordType("unknown")))
    ELSE Throw("Unknown array type for field: " \o propertyName)

\* the type of a direct definition that is neither a filter nor an inline
\* object (321-382)
PrimitiveType(propertyName, definitions, propertyDescriptionElement) ==
    LET Has(token) == ArrIncludes(definitions, token)
    IN  IF Has("string") THEN Return(KeywordType("string"))
        ELSE IF Has("list of string") THEN Return(ArrayType(KeywordType("string")))
        ELSE IF \E token \in NumberDefinitions : Has(token)
        THEN Return(KeywordType("number"))
        ELSE IF Has("boolean") THEN Return(KeywordType("boolean"))
        ELSE IF Has("jsonobject") THEN Return(KeywordType("object"))
        ELSE IF Has("jsonarray") THEN JsonArrayType(propertyName)
        ELSE IF Has("enumerated string")
        THEN Bind(EnumValues(propertyDescriptionElement),
                  LAMBDA enumValues :
                      IF Len(enumValues) > 0 THEN Return(UnionType(enumValues))
                      ELSE Return(KeywordType("string")))
        ELSE Return(KeywordType("unknown"))

\* the type of an interface reference (239-259)
ReferenceSignature(propertyName, definitions) ==
    \* an only-"optional" definition leaves no token to convert:
    \* snakeCaseToPascalCase(undefined)
    IF SelectSeq(definitions, LAMBDA d : d # "optional") = <<>>
    THEN Throw("TypeError")
    ELSE Return(<<PropertySignature(propertyName, IsOptional(definitions),
                                    TypeReference(InterfaceName(definitions)))>>)

\* the filter property set (274-307)
FilterPropertySignatures(propertyName, definitions, propertyDescriptionElement) ==
    With(FilterName(propertyName), LAMBDA filterName :
        Bind(FilterOperators(filterName, propertyDescriptionElement),
             LAMBDA operators :
                 IF operators = None THEN Throw("Unable to parse operators.")
                 ELSE Return(FilterSignatures(filterName, operators[1],
                                              IsOptional(definitions)))))

\* the single signature of a definition that is no filter (385-393)
TypedSignature(propertyName, definitions, type) ==
    Bind(type, LAMBDA typeNode :
        Return(<<PropertySignature(propertyName, IsOptional(definitions),
                                   typeNode)>>))

\* a chain that looks for the nested property list before the filter tokens
DirectSignatureNestedFirst(propertyElement_, propertyName, definitions, propertyDescriptionElement) ==
    With(ChildElementsWithClass(propertyElement_, "cb-list-group-in"),
         LAMBDA typePropertiesElements :
        IF typePropertiesElements # <<>>
        THEN TypedSignature(propertyName, definitions,
                 Bind(FirstSignatures(
                          ChildElementsWithClass(typePropertiesElements[1],
                                                 "cb-sublist-action"), 1),
                      LAMBDA members : Return(TypeLiteral(members))))
        ELSE IF \E token \in FilterDefinitions : ArrIncludes(definitions, token)
        THEN FilterPropertySignatures(propertyName, definitions,
                                      propertyDescriptionElement)
        ELSE TypedSignature(propertyName, definitions,
                 PrimitiveType(propertyName, definitions,
                               propertyDescriptionElement)))

\* the signatures of a direct definition (260-393)
DirectSignature(propertyElement_, propertyName, definitions, propertyDescriptionElement) ==
    IF \E token \in FilterDefinitions : ArrIncludes(definitions, token)
    THEN FilterPropertySignatures(propertyName, definitions,
                                  propertyDescriptionElement)
    ELSE With(ChildElementsWithClass(propertyElement_, "cb-list-group-in"),
              LAMBDA typePropertiesElements :
        IF typePropertiesElements # <<>>
        THEN TypedSignature(propertyName, definitions,
                 Bind(FirstSignatures(
                          ChildElementsWithClass(typePropertiesElements[1],
                                                 "cb-sublist-action"), 1),
                      LAMBDA members : Return(TypeLiteral(members))))
        ELSE TypedSignature(propertyName, definitions,
                 PrimitiveType(propertyName, definitions,
                               propertyDescriptionElement)))

\* the definition list of a description (201-229), then the type (238-393)
DescribedSignature(propertyElement_, isInterfaceReference, propertyName, propertyDescriptionElement) ==
    With(DefinitionElement(propertyDescriptionElement), LAMBDA definitionElement :
        IF definitionElement = None
        THEN Throw("Could not locate property definition element.")
        ELSE With(FirstTextChild(definitionElement[1]), LAMBDA definitionText :
            IF definitionText = None
            THEN Throw("Unable to locate definition text.")
            ELSE With(Definitions(definitionText[1].value), LAMBDA definitions :
                IF isInterfaceReference
                THEN ReferenceSignature(propertyName, definitions)
                ELSE DirectSignature(propertyElement_, propertyName, definitions,
                                     propertyDescriptionElement))))

\* the description of a named property (189-200), then the rest
NamedSignature(propertyElement_, isInterfaceReference, name) ==
    IF name = None \/ name[1] = ""
    THEN Throw("Unable to locate property name.")
    ELSE With(ChildElementsWithClass(propertyElement_, "cb-list-desc"),
              LAMBDA propertyDescriptionElements :
        IF propertyDescriptionElements = <<>>
        THEN Throw("Unable to locate property description element.")
        ELSE DescribedSignature(propertyElement_, isInterfaceReference, name[1],
                                propertyDescriptionElements[1]))

\* the branch of a direct definition or an interface reference (144-393)
ItemSignature(propertyElement_, isInterfaceReference) ==
    With(ChildElementsWithClass(propertyElement_, "cb-list-item"),
         LAMBDA propertyItemElements :
        IF propertyItemElements = <<>>
        THEN Throw("Unable to locate property item element.")
        ELSE Bind(IF isInterfaceReference
                  THEN ReferencePropertyName(propertyItemElements[1])
                  ELSE DirectPropertyName(propertyItemElements[1]),
                  LAMBDA name :
                      NamedSignature(propertyElement_, isInterfaceReference, name)))

generateInterfacePropertySignature(propertyElement_) ==
    IF HasClass(propertyElement_, "sub-group")
    THEN SubGroupSignature(propertyElement_)
    ELSE ItemSignature(propertyElement_,
                       /\ ~HasClass(propertyElement_, "cb-list-action")
                       /\ ~HasClass(propertyElement_, "cb-sublist-action"))

\* generateInterfaceProperties (396-405)
generateInterfaceProperties(propertyListElement) ==
    FlatSignatures(SelectSeq(propertyListElement.children,
                             LAMBDA c : c.type = "element"), 1)

(***************************************************************************)
(* getAdjacentElement (index.ts 14-29)                                     *)
(***************************************************************************)
\* a search that compares what the nodes hold, not which objects they are
ChildIndexByContent(node, parentElement) ==
    LET hits == {i \in DOMAIN parentElement.children :
                    /\ node # None
                    /\ [parentElement.children[i] EXCEPT !.nid = <<>>]
                           = [node[1] EXCEPT !.nid = <<>>]}
    IN  IF hits = {} THEN 0 ELSE Min(hits)

\* parentElement.children.findIndex((child) => child === node), 1-based;
\* 0 when no child is that node (findIndex gives -1).  node is an optional
\* value: callers pass the null an earlier lookup returned.
ChildIndex(node, parentElement) ==
    LET hits == {i \in DOMAIN parentElement.children :
                    node # None /\ parentElement.children[i].nid = node[1].nid}
    IN  IF hits = {} THEN 0 ELSE Min(hits)

getAdjacentElement(node, parentNode) ==
    LET nodeIndex == ChildIndex(node, parentNode)
        later == {i \in DOMAIN parentNode.children :
                     i > nodeIndex /\ parentNode.children[i].type = "element"}
    IN  IF later = {} THEN None ELSE Some(parentNode.children[Min(later)])

\* the element children of a parent with their positions (1258-1268)
IndexedChildren(parentElement) ==
    SelectSeq([i \in DOMAIN parentElement.children |->
                  [element |-> parentElement.children[i], originalIndex |-> i]],
              LAMBDA indexedChild : indexedChild.element.type = "element")

\* a lookup that gives null for an element the list does not hold
getAdjacentElementIndexedOrNull(element, parentNode) ==
    LET indexedChildren == IndexedChildren(parentNode)
        hits == {k \in DOMAIN indexedChildren :
                    element # None /\ indexedChildren[k].element.nid = element[1].nid}
    IN  IF hits = {} \/ Min(hits) + 1 > Len(indexedChildren) THEN None
        ELSE Some(indexedChildren[Min(hits) + 1].element)

\* the earlier getAdjacentElement (index.ts 1254-1279): the element after
\* the one passed in the list of the element children; findIndex gives -1
\* for an element the list does not hold, and the entry at 0 is returned
getAdjacentElementIndexed(element, parentNode) ==
    LET indexedChildren == IndexedChildren(parentNode)
        hits == {k \in DOMAIN indexedChildren :
                    element # None /\ indexedChildren[k].element.nid = element[1].nid}
        adjustedIndex == IF hits = {} THEN 0 ELSE Min(hits)
    IN  IF adjustedIndex + 1 > Len(indexedChildren) THEN None
        ELSE Some(indexedChildren[adjustedIndex + 1].element)

(***************************************************************************)
(* Statements of the declaration file.                                     *)
(***************************************************************************)
InterfaceDeclaration(name, exported, members) ==
    [kind |-> "interface", name |-> name, exported |-> exported,
     members |-> members]
ModuleDeclaration(name, moduleStatements) ==
    [kind |-> "namespace", name |-> name, statements |-> moduleStatements]
ExportSpecifier(propertyName, name) == [propertyName |-> propertyName, name |-> name]
ExportDeclaration(specifiers) == [kind |-> "export", specifiers |-> specifiers]
\* const name: request.RequestFactory<[...parameters], response>
RequestFactoryStatement(name, parameters, response) ==
    [kind |-> "const", name |-> name, parameters |-> parameters,
     response |-> response]

(***************************************************************************)
(* generateModuleInterfaces (index.ts 408-461)                             *)
(***************************************************************************)
\* /_attributes$/.test(id)
EndsWithAttributes(id) == Slice(id, Len(id) - 10, Len(id)) = "_attributes"

\* every following sibling that carries the cb-list class
RECURSIVE ListSiblingsToTheEnd(_, _)
ListSiblingsToTheEnd(parentElement, i) ==
    IF i > Len(parentElement.children) THEN <<>>
    ELSE LET propertyNode == parentElement.children[i]
         IN  IF propertyNode.type = "element" /\ HasClass(propertyNode, "cb-list")
             THEN <<propertyNode>> \o ListSiblingsToTheEnd(parentElement, i + 1)
             ELSE ListSiblingsToTheEnd(parentElement, i + 1)

\* the following siblings that carry the cb-list class, up to the first
\* element that does not (432-442)
RECURSIVE ListSiblings(_, _)
ListSiblings(parentElement, i) ==
    IF i > Len(parentElement.children) THEN <<>>
    ELSE LET propertyNode == parentElement.children[i]
         IN  IF propertyNode.type # "element"
             THEN ListSiblings(parentElement, i + 1)
             ELSE IF ~HasClass(propertyNode, "cb-list") THEN <<>>
             ELSE <<propertyNode>> \o ListSiblings(parentElement, i + 1)

\* the page headers that open an auxiliary type section (413-430)
AttributeHeaders(tree) ==
    SelectSeq(Visit(tree, "element"),
        LAMBDA e :
            /\ e.node.tagName = "div"
            /\ HasClass(e.node, "page-header")
            /\ LET headings == SelectSeq(e.node.children,
                                   LAMBDA c : c.tagName = "h4")
               IN  headings # <<>> /\ EndsWithAttributes(headings[1].id))

\* one interface per header; the first fragment that throws ends the visit
RECURSIVE InterfacesOf(_, _)
InterfacesOf(headers, i) ==
    IF i > Len(headers) THEN Return(<<>>)
    ELSE
    LET heading == SelectSeq(headers[i].node.children,
                       LAMBDA c : c.tagName = "h4")[1]
        interfaceName ==
            snakeCaseToPascalCase(ReplaceFirst(heading.id, "_attributes", ""))
    IN  Bind(FlatSignatures(
                 ListSiblings(headers[i].parent[1], headers[i].index + 1), 1),
             LAMBDA members :
                 Bind(InterfacesOf(headers, i + 1),
                      LAMBDA rest :
                          Return(<<InterfaceDeclaration(interfaceName, FALSE,
                                                        members)>> \o rest)))

generateModuleInterfaces(modulePageTree_) ==
    InterfacesOf(AttributeHeaders(modulePageTree_), 1)

(***************************************************************************)
(* generateModuleMethods (index.ts 463-690)                                *)
(***************************************************************************)
IdentifierChars == "abcdefghijklmnopqrstuvwxyz0123456789_"

\* the longest run of identifier characters of s that starts at i
RECURSIVE IdentifierAt(_, _)
IdentifierAt(s, i) ==
    IF i <= Len(s) /\ StrIncludes(IdentifierChars, Char(s, i))
    THEN Char(s, i) \o IdentifierAt(s, i + 1)
    ELSE ""

\* /chargebee\.[a-z0-9_]+\.([a-z0-9_]+)\(/.exec(methodSignature): the
\* method name of the leftmost match, or null
MethodNameMatch(methodSignature) ==
    LET starts ==
            {i \in 1..Len(methodSignature) :
                /\ Slice(methodSignature, i, i + 9) = "chargebee."
                /\ LET namespace == IdentifierAt(methodSignature, i + 10)
                       j == i + 10 + Len(namespace)
                       method == IdentifierAt(methodSignature, j + 1)
                   IN  /\ namespace # ""
                       /\ Char(methodSignature, j) = "."
                       /\ method # ""
                       /\ Char(methodSignature, j + 1 + Len(method)) = "("}
    IN  IF starts = {} THEN None
        ELSE LET i == Min(starts)
                 namespace == IdentifierAt(methodSignature, i + 10)
             IN  Some(IdentifierAt(methodSignature, i + 11 + Len(namespace)))

\* /\(<([a-z0-9_]+)>/.exec(methodSignature)
StringParameterMatch(methodSignature) ==
    LET starts ==
            {i \in 1..Len(methodSignature) :
                /\ Slice(methodSignature, i, i + 1) = "(<"
                /\ LET token == IdentifierAt(methodSignature, i + 2)
                   IN  token # "" /\ Char(methodSignature, i + 2 + Len(token)) = ">"}
    IN  IF starts = {} THEN None
        ELSE Some(IdentifierAt(methodSignature, Min(starts) + 2))

\* /{.+}/.test(methodSignature): a brace, at least one character, a brace,
\* with no line break between them
HasObjectParameter(methodSignature) ==
    \E i, j \in 1..Len(methodSignature) :
        /\ Char(methodSignature, i) = "{"
        /\ Char(methodSignature, j) = "}"
        /\ j > i + 1
        /\ \A k \in (i + 1)..(j - 1) : Char(methodSignature, k) # "\n"

\* the h4 headings that read "Sample Result" (474-484)
SampleResultHeadings(tree) ==
    SelectSeq(Visit(tree, "element"),
        LAMBDA e :
            /\ e.node.tagName = "h4"
            /\ \E i \in DOMAIN e.node.children :
                   /\ e.node.children[i].type = "text"
                   /\ Trim(e.node.children[i].value) = "Sample Result")

\* the statements pushed for one method, parameters being the members of
\* its parameters interface when it takes an object (559-685)
MethodDeclarations(methodName, stringParameterName, parameters) ==
    With(snakeCaseToPascalCase(methodName), LAMBDA typeName :
        Return(
            (IF parameters # None
             THEN <<InterfaceDeclaration(typeName \o "Parameters", TRUE,
                                         parameters[1])>>
             ELSE <<>>)
            \o <<InterfaceDeclaration(typeName \o "Response", TRUE, <<>>),
                 RequestFactoryStatement(
                     "_" \o methodName,
                     (IF stringParameterName # None /\ stringParameterName[1] # ""
                      THEN <<KeywordType("string")>> ELSE <<>>)
                     \o (IF parameters # None
                         THEN <<TypeReference(typeName \o "Parameters")>>
                         ELSE <<>>),
                     TypeReference(typeName \o "Response")),
                 ExportDeclaration(
                     <<ExportSpecifier("_" \o methodName, methodName)>>)>>))

\* the parameters taken from the element right after the signature
SignedMethodNextBlock(methodSignature, methodSignatureWrapperElement, parent) ==
    With(MethodNameMatch(methodSignature), LAMBDA methodName :
        IF methodName = None THEN Throw("Unable to parse method name.")
        ELSE IF ~HasObjectParameter(methodSignature)
        THEN MethodDeclarations(methodName[1],
                                StringParameterMatch(methodSignature), None)
        ELSE With(getAdjacentElement(methodSignatureWrapperElement, parent),
                  LAMBDA inputParametersWrapper :
            IF inputParametersWrapper = None THEN Throw("TypeError")
            ELSE Bind(FlatSignatures(
                          SelectSeq(inputParametersWrapper[1].children,
                              LAMBDA c : /\ c.type = "element"
                                         /\ \/ HasClass(c, "cb-list-action")
                                            \/ HasClass(c, "sub-group")), 1),
                      LAMBDA interfacePropertySignatures :
                          MethodDeclarations(
                              methodName[1],
                              StringParameterMatch(methodSignature),
                              Some(interfacePropertySignatures)))))

\* the parameters of a method from its signature (545-623), then its
\* statements
SignedMethod(methodSignature, methodSignatureWrapperElement, parent) ==
    With(MethodNameMatch(methodSignature), LAMBDA methodName :
        IF methodName = None THEN Throw("Unable to parse method name.")
        ELSE IF ~HasObjectParameter(methodSignature)
        THEN MethodDeclarations(methodName[1],
                                StringParameterMatch(methodSignature), None)
        ELSE With(getAdjacentElement(
                      getAdjacentElement(methodSignatureWrapperElement, parent),
                      parent),
                  LAMBDA inputParametersWrapper :
            \* inputParametersWrapper.children on null
            IF inputParametersWrapper = None THEN Throw("TypeError")
            ELSE Bind(FlatSignatures(
                          SelectSeq(inputParametersWrapper[1].children,
                              LAMBDA c : /\ c.type = "element"
                                         /\ \/ HasClass(c, "cb-list-action")
                                            \/ HasClass(c, "sub-group")), 1),
                      LAMBDA interfacePropertySignatures :
                          MethodDeclarations(
                              methodName[1],
                              StringParameterMatch(methodSignature),
                              Some(interfacePropertySignatures)))))

\* the signature of a method, from the element after its sample (503-545)
MethodSignature(methodSignatureWrapperElement, parent, namespaceName) ==
    \* methodSignatureWrapperElement.properties on null
    IF methodSignatureWrapperElement = None THEN Throw("TypeError")
    ELSE IF ~HasClass(methodSignatureWrapperElement[1], "cb-code-io")
    THEN Throw("Error")
    ELSE With(ChildElementsWithClass(methodSignatureWrapperElement[1],
                                     "prettyprint"),
              LAMBDA methodSignatureElements :
        IF methodSignatureElements = <<>>
        THEN Throw("Unable to retrieve method signature element.")
        ELSE With(FirstTextChild(methodSignatureElements[1]),
                  LAMBDA methodSignatureText :
            IF methodSignatureText = None
            THEN Throw("Unable to retrieve method signature text.")
            ELSE SignedMethod(methodSignatureText[1].value,
                              methodSignatureWrapperElement, parent)))

\* the sample of a method (486-502), then the rest
SampledMethod(sampleResultCodeWrapperElement, parent, namespaceName) ==
    \* visit(null, ...) on a heading with no element after it
    IF sampleResultCodeWrapperElement = None THEN Throw("TypeError")
    ELSE With(SelectSeq(Visit(sampleResultCodeWrapperElement[1], "element"),
                  LAMBDA e : /\ e.node.tagName \in {"pre", "code"}
                             /\ HasClass(e.node, "prettyprint")),
              LAMBDA sampleResultCodeElements :
        IF sampleResultCodeElements = <<>>
        THEN Throw("Failed to retrieve sample code element for "
                       \o namespaceName \o " method.")
        ELSE IF FirstTextChild(sampleResultCodeElements[1].node) = None
        THEN Throw("Unable to retrieve sample code text.")
        ELSE MethodSignature(
                 getAdjacentElement(
                     getAdjacentElement(sampleResultCodeWrapperElement, parent),
                     parent),
                 parent, namespaceName))

\* the statements of one method (486-685)
MethodStatements(sampleResultHeadingElement, parent, namespaceName) ==
    SampledMethod(getAdjacentElement(Some(sampleResultHeadingElement), parent),
                  parent, namespaceName)

RECURSIVE MethodsOf(_, _, _)
MethodsOf(headings, i, namespaceName) ==
    IF i > Len(headings) THEN Return(<<>>)
    ELSE Bind(MethodStatements(headings[i].node, headings[i].parent[1],
                               namespaceName),
              LAMBDA head :
                  Bind(MethodsOf(headings, i + 1, namespaceName),
                       LAMBDA rest : Return(head \o rest)))

generateModuleMethods(modulePageTree_, namespaceName) ==
    MethodsOf(SampleResultHeadings(modulePageTree_), 1, namespaceName)

(***************************************************************************)
(* generateModel (index.ts 692-731)                                        *)
(***************************************************************************)
\* the elements adjacent to an "attributes" comment, whatever they are
PropertyListElementsOfAnyKind(modulePageTree_) ==
    LET comments == SelectSeq(Visit(modulePageTree_, "comment"),
                        LAMBDA e : e.node.value = "attributes")
        adjacent == [i \in DOMAIN comments |->
                        getAdjacentElement(Some(comments[i].node),
                                           comments[i].parent[1])]
        groups == SelectSeq(adjacent, LAMBDA a : a # None)
    IN  [i \in DOMAIN groups |-> groups[i][1]]


\* the elements adjacent to an "attributes" comment that are list groups,
\* in the order the comments are visited (699-714)
PropertyListElements(modulePageTree_) ==
    LET comments == SelectSeq(Visit(modulePageTree_, "comment"),
                        LAMBDA e : e.node.value = "attributes")
        adjacent == [i \in DOMAIN comments |->
                        getAdjacentElement(Some(comments[i].node),
                                           comments[i].parent[1])]
        groups == SelectSeq(adjacent,
                      LAMBDA a : /\ a # None
                                 /\ a[1].tagName = "div"
                                 /\ HasClass(a[1], "cb-list-group"))
    IN  [i \in DOMAIN groups |-> groups[i][1]]

\* the first qualifying comment keeps propertyListElement
generateModelOfFirstList(modulePageTree_, namespaceName) ==
    With(PropertyListElements(modulePageTree_), LAMBDA propertyListElements :
        IF propertyListElements = <<>>
        THEN Throw("Unable to retrieve property list for model: "
                       \o snakeCaseToPascalCase(namespaceName))
        ELSE Bind(generateInterfaceProperties(propertyListElements[1]),
                  LAMBDA properties :
                      Return(InterfaceDeclaration(
                                 snakeCaseToPascalCase(namespaceName), TRUE,
                                 properties))))

generateModel(modulePageTree_, namespaceName) ==
    With(PropertyListElements(modulePageTree_), LAMBDA propertyListElements :
        IF propertyListElements = <<>>
        THEN Throw("Unable to retrieve property list for model: "
                       \o snakeCaseToPascalCase(namespaceName))
        \* every qualifying comment assigns propertyListElement: the last wins
        ELSE Bind(generateInterfaceProperties(
                      propertyListElements[Len(propertyListElements)]),
                  LAMBDA properties :
                      Return(InterfaceDeclaration(
                                 snakeCaseToPascalCase(namespaceName), TRUE,
                                 properties))))

(***************************************************************************)
(* generateModule (index.ts 1070-1125)                                     *)
(***************************************************************************)
\* the first dot-separated segment of a code sample
FirstSegment(value) == Split(value, ".")[1]

\* valueSegments[valueSegments.length - 1] of value.split(".") (1104-1105)
LastSegment(value) ==
    LET valueSegments == Split(value, ".")
    IN  valueSegments[Len(valueSegments)]

\* /[a-z._]/.test(value)
NamespaceChars == "abcdefghijklmnopqrstuvwxyz._"
HasNamespaceChar(value) ==
    \E i \in 1..Len(value) : StrIncludes(NamespaceChars, Char(value, i))

\* the namespace names found after the "Model Class" headings, in the
\* order they are assigned (1079-1107)
NamespaceNames(modulePageTree_) ==
    LET headings ==
            SelectSeq(Visit(modulePageTree_, "element"),
                LAMBDA e :
                    /\ e.node.tagName = "h4"
                    /\ \E i \in DOMAIN e.node.children :
                           /\ e.node.children[i].type = "text"
                           /\ e.node.children[i].value = "Model Class")
        adjacent == [i \in DOMAIN headings |->
                        getAdjacentElement(Some(headings[i].node),
                                           headings[i].parent[1])]
        samples == SelectSeq(adjacent, LAMBDA a : a # None)
        NamesIn(adjacentElement) ==
            LET texts ==
                    SelectSeq(Visit(adjacentElement, "text"),
                        LAMBDA t :
                            /\ HasNamespaceChar(t.node.value)
                            /\ t.parent # None
                            /\ t.parent[1].tagName = "pre"
                            /\ HasClass(t.parent[1], "prettyprint")
                            /\ HasClass(t.parent[1], "lang-js"))
            IN  [i \in DOMAIN texts |-> LastSegment(texts[i].node.value)]
    IN  LET RECURSIVE Collect(_)
            Collect(i) == IF i > Len(samples) THEN <<>>
                          ELSE NamesIn(samples[i][1]) \o Collect(i + 1)
        IN  Collect(1)

\* a namespace declared under its own name, exported under the prefixed one
NamespaceOfUnprefixed(modulePageTree_, namespaceName) ==
    Bind(generateModel(modulePageTree_, namespaceName), LAMBDA model :
        Bind(generateModuleInterfaces(modulePageTree_), LAMBDA interfaces :
            Bind(generateModuleMethods(modulePageTree_, namespaceName),
                 LAMBDA methods :
                Return([namespaceName |-> namespaceName,
                        prefixedNamespaceName |-> "_" \o namespaceName,
                        namespaceStatement |->
                            ModuleDeclaration(namespaceName,
                                <<model>> \o interfaces \o methods)]))))

\* the namespace of a page from its statements (1115-1124)
NamespaceOf(modulePageTree_, namespaceName) ==
    Bind(generateModel(modulePageTree_, namespaceName), LAMBDA model :
        Bind(generateModuleInterfaces(modulePageTree_), LAMBDA interfaces :
            Bind(generateModuleMethods(modulePageTree_, namespaceName),
                 LAMBDA methods :
                Return([namespaceName |-> namespaceName,
                        prefixedNamespaceName |-> "_" \o namespaceName,
                        namespaceStatement |->
                            ModuleDeclaration("_" \o namespaceName,
                                <<model>> \o interfaces \o methods)]))))

generateModule(modulePageTree_) ==
    With(NamespaceNames(modulePageTree_), LAMBDA namespaceNames :
        \* every qualifying text assigns namespaceName: the last wins
        IF namespaceNames = <<>> \/ namespaceNames[Len(namespaceNames)] = ""
        THEN Throw("Unable to determine namespace name.")
        ELSE NamespaceOf(modulePageTree_, namespaceNames[Len(namespaceNames)]))

(***************************************************************************)
(* parseResource.ts: the cheerio-based extraction of properties (28-140).  *)
(* $("> tag.class", element) selects among the element children; the data *)
(* of a node is the value of a text or of a comment, undefined otherwise.  *)
(***************************************************************************)
\* $("> tag.class", element)
ChildrenMatching(element, tagName, class) ==
    SelectSeq(element.children,
        LAMBDA c : /\ c.type = "element"
                   /\ tagName \in {"", c.tagName}
                   /\ HasClass(c, class))

HasData(node) == node.type \in {"text", "comment"}

PrimitivePropertyType(optional, typeName) ==
    [optional |-> optional, type |-> "primitive", typeName |-> typeName]
ObjectPropertyType(optional, properties) ==
    [optional |-> optional, type |-> "object", properties |-> properties]

\* parseEnumElement (28-41)
parseEnumElement(enumElement) ==
    With(ChildrenMatching(enumElement, "samp", "enum"),
         LAMBDA enumValueElements :
        \* enumValueElement.children[0].data on a sample without children
        IF \E i \in DOMAIN enumValueElements : enumValueElements[i].children = <<>>
        THEN Throw("TypeError")
        ELSE With(SelectSeq(enumValueElements, LAMBDA e : HasData(e.children[1])),
                  LAMBDA withData :
            IF Len(withData) = 0 THEN Throw("Missing enum values.")
            ELSE Return(Join([i \in DOMAIN withData |->
                                 "\"" \o withData[i].children[1].value \o "\""],
                             " | "))))

\* parsePropertyAttributes (43-62)
parsePropertyAttributes(propertyTypeElement) ==
    With(ChildrenMatching(propertyTypeElement, "dfn", "text-muted"),
         LAMBDA propertyStringElements :
        IF propertyStringElements = <<>>
        THEN Throw("Missing property string element.")
        ELSE IF propertyStringElements[1].children = <<>>
        THEN Throw("Missing property string text node.")
        ELSE IF \/ ~HasData(propertyStringElements[1].children[1])
                \/ propertyStringElements[1].children[1].value = ""
        THEN Throw("Missing property string.")
        ELSE Return(Split(propertyStringElements[1].children[1].value, ", ")))

\* a parser that takes a property without enum values for a plain string
parsePropertyTypeElementDegrading(propertyTypeElement) ==
    Bind(parsePropertyAttributes(propertyTypeElement), LAMBDA propertyAttributes :
        IF \/ ArrIncludes(propertyAttributes, "string")
           \/ ArrIncludes(propertyAttributes, "enumerated string")
        THEN Return(PrimitivePropertyType(
                        ArrIncludes(propertyAttributes, "optional"), "string"))
        ELSE IF \/ ArrIncludes(propertyAttributes, "in cents")
                \/ ArrIncludes(propertyAttributes, "timestamp(UTC) in seconds")
        THEN Return(PrimitivePropertyType(
                        ArrIncludes(propertyAttributes, "optional"), "number"))
        ELSE Throw("Unsupported type: " \o Join(propertyAttributes, ", ")))

\* parsePropertyTypeElement (64-98)
parsePropertyTypeElement(propertyTypeElement) ==
    Bind(parsePropertyAttributes(propertyTypeElement), LAMBDA propertyAttributes :
        IF ArrIncludes(propertyAttributes, "string")
        THEN Return(PrimitivePropertyType(
                        ArrIncludes(propertyAttributes, "optional"), "string"))
        ELSE IF ArrIncludes(propertyAttributes, "enumerated string")
        THEN With(ChildrenMatching(propertyTypeElement, "", "cb-enum-parent"),
                  LAMBDA enumElements :
                 IF enumElements = <<>> THEN Throw("Missing enum element.")
                 ELSE Bind(parseEnumElement(enumElements[1]), LAMBDA typeName :
                          Return(PrimitivePropertyType(
                                     ArrIncludes(propertyAttributes, "optional"),
                                     typeName))))
        ELSE IF \/ ArrIncludes(propertyAttributes, "in cents")
                \/ ArrIncludes(propertyAttributes, "timestamp(UTC) in seconds")
        THEN Return(PrimitivePropertyType(
                        ArrIncludes(propertyAttributes, "optional"), "number"))
        ELSE Throw("Unsupported type: " \o Join(propertyAttributes, ", ")))

\* $(".cb-sublist-action", propertyElement): the descendants, in document
\* order, that carry the class
SublistActionElements(propertyElement_) ==
    LET below == SelectSeq(Tail(VisitNode(propertyElement_, 0, None)),
                     LAMBDA e : e.node.type = "element"
                                    /\ HasClass(e.node, "cb-sublist-action"))
    IN  [i \in DOMAIN below |-> below[i].node]

RECURSIVE parsePropertyElements(_, _)

\* the type of one property (116-139)
parsePropertyType(propertyElement_, propertyIsObject, propertyTypeElement) ==
    IF propertyIsObject
    THEN Bind(parsePropertyAttributes(propertyTypeElement),
              LAMBDA propertyAttributes :
             Bind(parsePropertyElements(SublistActionElements(propertyElement_), 1),
                  LAMBDA properties :
                      Return(ObjectPropertyType(
                                 ArrIncludes(propertyAttributes, "optional"),
                                 properties))))
    ELSE parsePropertyTypeElement(propertyTypeElement)

\* one property of the loop (105-138)
parsePropertyElement(propertyElement_) ==
    With(ChildrenMatching(propertyElement_, "", "cb-list-item"),
         LAMBDA propertyNameElements :
        IF propertyNameElements = <<>>
        THEN Throw("Missing property name element.")
        ELSE With(SelectSeq(propertyNameElements[1].children,
                      LAMBDA c : c.type = "element" /\ c.tagName = "samp"),
                  LAMBDA samples :
            \* toArray()[0].children on no sample, [0].data on no text
            IF \/ samples = <<>>
               \/ SelectSeq(samples[1].children, LAMBDA c : c.type = "text") = <<>>
            THEN Throw("TypeError")
            ELSE IF FirstTextChild(samples[1])[1].value = ""
            THEN Throw("Missing property name.")
            ELSE With(ChildrenMatching(propertyElement_, "", "cb-list-desc"),
                      LAMBDA propertyTypeElements :
                IF propertyTypeElements = <<>>
                THEN Throw("Missing property type element.")
                ELSE Bind(parsePropertyType(
                              propertyElement_,
                              ChildrenMatching(propertyNameElements[1], "a",
                                               "toggle-attr") # <<>>,
                              propertyTypeElements[1]),
                          LAMBDA propertyType :
                              Return(<<FirstTextChild(samples[1])[1].value,
                                       propertyType>>)))))

\* parsePropertyElements (100-140): the first property that throws ends
\* the loop
parsePropertyElements(propertyElements, i) ==
    IF i > Len(propertyElements) THEN Return(<<>>)
    ELSE Bind(parsePropertyElement(propertyElements[i]), LAMBDA property :
             Bind(parsePropertyElements(propertyElements, i + 1),
                  LAMBDA rest : Return(<<property>> \o rest)))

(***************************************************************************)
(* The documentation markup of one property, as the provider writes it.    *)
(***************************************************************************)
\* <div class="cb-list-desc"><dfn class="text-muted">definition</dfn>...</div>
Description(definitionText, details) ==
    Element("div", <<"cb-list-desc">>,
            <<Element("dfn", <<"text-muted">>, <<Text(definitionText)>>)>>
                \o details)

\* a property defined in place: its name in a samp element
DirectFragment(actionClass, name, definitionText, details, nested) ==
    Element("div", <<"cb-list", actionClass>>,
            <<Element("div", <<"cb-list-item">>,
                      <<Element("samp", <<>>, <<Text(name)>>)>>),
              Description(definitionText, details)>> \o nested)

\* a property that refers to a resource: no list-action class, its name in
\* a link to the resource's page
ReferenceFragment(name, definitionText) ==
    Element("div", <<"cb-list">>,
            <<Element("div", <<"cb-list-item">>,
                      <<Anchor(<<>>, "/docs/api/" \o name, <<Text(name)>>)>>),
              Description(definitionText, <<>>)>>)

\* the nested property list of an inline object
GroupIn(subPropertyElements) ==
    <<Element("div", <<"cb-list-group-in">>, subPropertyElements)>>

\* a group of method parameters: a list head naming it, a collapsed list
SubGroupFragment(classes, name, headDescription, subPropertyElements) ==
    Element("div", <<"cb-list", "sub-group">> \o classes,
            <<Element("div", <<"cb-list-head">>,
                      <<Element("div", <<"cb-list-item">>,
                                <<Element("strong", <<>>, <<Text(name)>>)>>),
                        Element("div", <<"cb-list-desc">>, headDescription)>>),
              Element("div", <<"collapse">>, subPropertyElements)>>)

\* <samp class="enum">value</samp>
EnumSample(value) == Element("samp", <<"enum">>, <<Text(value)>>)

\* <b>Supported operators : </b>is, is_not
SupportedOperators(operatorsText) ==
    <<Element("b", <<>>, <<Text("Supported operators : ")>>), Text(operatorsText)>>

\* what may follow the definition inside a description
DescriptionDetails ==
    {<<>>,
     <<Text("Possible values are"),
       Element("div", <<"cb-enum-parent">>,
               <<EnumSample("active"), EnumSample("cancelled")>>)>>,
     \* a repeated value, and samples at different depths
     <<Element("div", <<"cb-enum-parent">>,
               <<Element("span", <<>>, <<EnumSample("future"), EnumSample("active")>>),
                 EnumSample("cancelled"), EnumSample("future")>>)>>,
     SupportedOperators("is, is_not, starts_with"),
     SupportedOperators("is") \o
         <<Element("div", <<"cb-enum-parent">>, <<EnumSample("active")>>)>>,
     \* the list of the values is there, and empty
     <<Element("div", <<"cb-enum-parent">>, <<>>)>>,
     \* the operators inside a paragraph of the description
     <<Element("p", <<>>, <<Text("Filters by id. ")>>
                              \o SupportedOperators("in, not_in"))>>}

DirectNames ==
    {"status", "sort_by", "sort_by[", " sort_by", "notes", "id[",
     "exemption_details"}

DirectDefinitionTexts ==
    {"string", "optional, string", "enumerated string",
     "optional, enumerated string", "enumerated string,  optional ",
     "string filter", "optional, string filter",
     "optional, enumerated string filter", "jsonarray", "optional, integer",
     "money",
     \* definitions that hold the tokens of two shapes
     "list of string, string", "integer, list of string", "boolean, long",
     "jsonobject, boolean", "optional, jsonarray, jsonobject",
     "enumerated string, jsonarray", "enumerated string, in cents filter"}

\* properties defined in place, without nested properties
LeafFragments(actionClass) ==
    {DirectFragment(actionClass, name, definitionText, details, <<>>) :
        name \in DirectNames, definitionText \in DirectDefinitionTexts,
        details \in DescriptionDetails}

ReferenceDefinitionTexts ==
    {"unbilled_charge", "list of unbilled_charge",
     "optional, list of unbilled_charge", "unbilled_charge[]", "customer",
     "optional, customer", "list of customer", "list of unbilled_charge_estimate",
     "optional",
     \* the tokens of the shapes of a direct definition
     "string", "optional, string filter", "enumerated string", "jsonarray",
     "list of string", "optional, list of payment_source, string"}

ReferenceFragments ==
    {ReferenceFragment(name, definitionText) :
        name \in {"customer", "unbilled_charges"},
        definitionText \in ReferenceDefinitionTexts}

\* the sub-properties nested fragments are built from
SubPropertyElements ==
    {DirectFragment("cb-sublist-action", "line1", "optional, string", <<>>, <<>>),
     DirectFragment("cb-sublist-action", "zip", "integer", <<>>, <<>>),
     DirectFragment("cb-sublist-action", "status", "enumerated string",
                    <<EnumSample("valid"), EnumSample("invalid")>>, <<>>),
     DirectFragment("cb-sublist-action", "id[", "optional, string filter",
                    SupportedOperators("is, is_not"), <<>>),
     DirectFragment("cb-sublist-action", "sort_by", "string filter", <<>>, <<>>),
     DirectFragment("cb-sublist-action", "tags", "jsonarray", <<>>, <<>>),
     DirectFragment("cb-sublist-action", "address", "optional",
                    <<>>, GroupIn(<<DirectFragment("cb-sublist-action", "city",
                                                   "string", <<>>, <<>>)>>)),
     SubGroupFragment(<<"cb-sublist-action">>, "card", <<Text("Parameters for card")>>,
                      <<DirectFragment("cb-sublist-action", "cvv",
                                       "optional, string", <<>>, <<>>)>>)}

\* the lists of at most two sub-properties
SubPropertyLists ==
    {<<>>} \cup {<<a>> : a \in SubPropertyElements}
           \cup {<<a, b>> : a \in SubPropertyElements, b \in SubPropertyElements}

\* inline objects: a direct definition with a nested property list
InlineFragments ==
    {DirectFragment("cb-list-action", "billing_address", definitionText, <<>>,
                    GroupIn(subPropertyElements)) :
        definitionText \in {"optional", "string", "optional, string filter"},
        subPropertyElements \in SubPropertyLists}

\* what the description of a sub-group's list head holds
HeadDescriptions ==
    {<<Text("Parameters for addons")>>,
     <<Text("Array of addons")>>,
     <<Element("dfn", <<"text-muted">>, <<Text("optional, list of addon")>>),
       Text("Parameters for addons")>>,
     <<Element("dfn", <<"text-muted">>, <<Text("addon")>>)>>}

SubGroupFragments ==
    {SubGroupFragment(<<>>, "addons", headDescription, subPropertyElements) :
        headDescription \in HeadDescriptions,
        subPropertyElements \in SubPropertyLists}

\* fragments that lack a part the generator requires
BrokenFragments ==
    {Element("div", <<"cb-list", "cb-list-action">>, <<>>),
     Element("div", <<"cb-list", "cb-list-action">>,
             <<Element("div", <<"cb-list-item">>, <<Text("status")>>),
               Description("string", <<>>)>>),
     Element("div", <<"cb-list", "cb-list-action">>,
             <<Element("div", <<"cb-list-item">>,
                       <<Element("samp", <<>>, <<Text("status")>>)>>)>>),
     Element("div", <<"cb-list", "cb-list-action">>,
             <<Element("div", <<"cb-list-item">>,
                       <<Element("samp", <<>>, <<Text("status")>>)>>),
               Element("div", <<"cb-list-desc">>, <<Text("A status")>>)>>),
     DirectFragment("cb-list-action", "status", "enumerated string",
                    <<Element("samp", <<"enum">>, <<>>)>>, <<>>),
     DirectFragment("cb-list-action", "id", "string filter",
                    <<Element("b", <<>>, <<Text("Supported operators : ")>>)>>, <<>>),
     SubGroupFragment(<<>>, "card", <<>>, <<>>)}

\* fragments that carry the marks of two shapes
OverlapFragments ==
    {DirectFragment("cb-list-action", "id[", "optional, string filter",
                    SupportedOperators("is, is_not"),
                    GroupIn(<<DirectFragment("cb-sublist-action", "line1",
                                             "optional, string", <<>>, <<>>)>>)),
     DirectFragment("cb-list-action", "sort_by", "string, string filter", <<>>,
                    GroupIn(<<>>)),
     DirectFragment("cb-list-action", "address", "jsonarray, boolean", <<>>,
                    GroupIn(<<DirectFragment("cb-sublist-action", "zip",
                                             "integer", <<>>, <<>>)>>)),
     SubGroupFragment(<<"cb-list-action">>, "filters",
                      <<Element("dfn", <<"text-muted">>, <<Text("string filter")>>),
                        Text("Array of filters")>>,
                      <<DirectFragment("cb-sublist-action", "zip", "integer",
                                       <<>>, <<>>)>>),
     Element("div", <<"cb-list", "cb-list-action", "sub-group">>,
             <<Element("div", <<"cb-list-item">>,
                       <<Element("samp", <<>>, <<Text("card")>>)>>),
               Description("string", <<>>)>>),
     \* an object whose attributes are shown by a toggle link
     Element("div", <<"cb-list", "cb-list-action">>,
             <<Element("div", <<"cb-list-item">>,
                       <<Element("samp", <<>>, <<Text("billing_address")>>),
                         Anchor(<<"toggle-attr">>, "#", <<Text("Show attributes")>>)>>),
               Description("optional", <<>>)>>
                 \o GroupIn(<<DirectFragment("cb-sublist-action", "line1",
                                             "optional, string", <<>>, <<>>),
                              DirectFragment("cb-sublist-action", "status",
                                             "enumerated string", <<>>, <<>>)>>))}

\* sub-groups whose list head lacks a part that a nested sub-group has
HeadlessFragments ==
    {\* no text in the description of the head
     SubGroupFragment(<<>>, "addons",
                      <<Element("dfn", <<"text-muted">>, <<Text("addon")>>)>>,
                      <<SubGroupFragment(<<"cb-sublist-action">>, "card",
                                         <<Text("Array of cards")>>, <<>>)>>),
     \* no strong-styled name in the item of the head
     Element("div", <<"cb-list", "sub-group">>,
             <<Element("div", <<"cb-list-head">>,
                       <<Element("div", <<"cb-list-item">>, <<Text("addons")>>),
                         Element("div", <<"cb-list-desc">>,
                                 <<Text("Parameters for addons")>>)>>),
               Element("div", <<"collapse">>,
                       <<SubGroupFragment(<<"cb-sublist-action">>, "card",
                                          <<Text("Array of cards")>>,
                                          <<DirectFragment("cb-sublist-action", "cvv",
                                                           "string", <<>>, <<>>)>>)>>)>>),
     \* three levels of sub-groups
     SubGroupFragment(<<>>, "subscription_items", <<Text("Array of items")>>,
         <<SubGroupFragment(<<"cb-sublist-action">>, "item_tiers",
                            <<Text("Array of tiers")>>,
               <<SubGroupFragment(<<"cb-sublist-action">>, "price",
                                  <<Text("Parameters for price")>>,
                     <<DirectFragment("cb-sublist-action", "amount",
                                      "optional, integer", <<>>, <<>>)>>)>>)>>),
     \* no collapsed list
     Element("div", <<"cb-list", "sub-group">>,
             <<Element("div", <<"cb-list-head">>,
                       <<Element("div", <<"cb-list-item">>,
                                 <<Element("strong", <<>>, <<Text("addons")>>)>>),
                         Element("div", <<"cb-list-desc">>,
                                 <<Text("Array of addons")>>)>>)>>)}

PropertyElements ==
    LeafFragments("cb-list-action") \cup ReferenceFragments \cup SubPropertyElements
        \cup InlineFragments \cup SubGroupFragments \cup BrokenFragments
        \cup OverlapFragments \cup HeadlessFragments

(***************************************************************************)
(* Pages.  parseAst (pageCache.ts 16-21) turns markup into a tree of       *)
(* fresh node objects: the markup of a page is kept as the document it     *)
(* spells, and parsing gives every node its identity, the path from the    *)
(* root.                                                                   *)
(***************************************************************************)
RECURSIVE WithIds(_, _)
WithIds(node, path) ==
    [node EXCEPT !.nid = path,
                 !.children = [i \in DOMAIN node.children |->
                                  WithIds(node.children[i], Append(path, i))]]

\* a tree without the identities of its nodes: what the markup spells
RECURSIVE Content(_)
Content(node) ==
    [node EXCEPT !.nid = <<>>,
                 !.children = [i \in DOMAIN node.children |->
                                  Content(node.children[i])]]

\* a document: html > body > content
Document(content) ==
    Root(<<Element("html", <<>>,
                   <<Element("head", <<>>, <<>>), Element("body", <<>>, content)>>)>>)

Markup(document) == [markup |-> document]

parseAst(contents) == WithIds(contents.markup, <<1>>)

\* <h4>Model Class</h4> and the code sample that names the namespace
ModelClassSection(sample) ==
    <<Heading("", <<Text("Model Class")>>), Text("\n"),
      Element("div", <<"cb-code-io">>,
              <<Element("pre", <<"prettyprint", "lang-js">>, <<Text(sample)>>)>>)>>

\* <!--attributes--> and the list group of the resource's attributes
AttributesSection(propertyElements) ==
    <<Comment("attributes"), Text("\n"),
      Element("div", <<"cb-list-group">>, propertyElements)>>

\* the header of an auxiliary type and the property lists that follow it
AuxiliarySection(id, propertyElements, rest) ==
    <<Element("div", <<"page-header">>, <<Heading(id, <<Text("Attributes")>>)>>),
      Text("\n")>> \o propertyElements \o rest

\* a method: its sample result, its call signature, its input parameters
MethodSection(sampleResult, methodSignature, parameters) ==
    <<Heading("", <<Text(" Sample Result ")>>),
      Element("div", <<"cb-code-io">>,
              <<Element("pre", <<"prettyprint">>, <<Text(sampleResult)>>)>>),
      Heading("", <<Text("Method")>>),
      Element("div", <<"cb-code-io">>,
              <<Element("pre", <<"prettyprint">>, <<Text(methodSignature)>>)>>),
      Heading("", <<Text("Input Parameters")>>),
      Element("div", <<"cb-list-group">>, parameters)>>

StatusFragment(definitionText) ==
    DirectFragment("cb-list-action", "status", definitionText,
                   <<Element("div", <<"cb-enum-parent">>,
                             <<EnumSample("active"), EnumSample("cancelled")>>)>>,
                   <<>>)

ModelClassParts ==
    {ModelClassSection("chargebee.subscription"),
     <<>>,
     ModelClassSection("chargebee.customer")
         \o ModelClassSection("chargebee.subscription"),
     <<Heading("", <<Text("Model Class")>>), Element("p", <<>>, <<Text("none")>>)>>,
     \* a sample with two texts, then a heading that no sample follows
     <<Heading("", <<Text("Model Class")>>),
       Element("div", <<"cb-code-io">>,
           <<Element("pre", <<"prettyprint", "lang-js">>,
                     <<Text("chargebee.customer"), Text("\n"),
                       Text("chargebee.subscription")>>),
             Element("pre", <<"prettyprint">>, <<Text("chargebee.card")>>)>>),
       Heading("", <<Text("Model Class")>>),
       Element("p", <<>>, <<Text("none")>>)>>}

AttributesParts ==
    {AttributesSection(<<StatusFragment("enumerated string")>>),
     AttributesSection(<<StatusFragment("optional, enumerated string")>>),
     <<>>,
     AttributesSection(
         <<DirectFragment("cb-list-action", "id[", "optional, string filter",
                          SupportedOperators("is, is_not"), <<>>),
           ReferenceFragment("unbilled_charges", "list of unbilled_charge")>>),
     <<Comment("attributes"), Element("p", <<"lead">>, <<Text("Attributes")>>)>>,
     AttributesSection(<<StatusFragment("enumerated string")>>)
         \o AttributesSection(
                <<DirectFragment("cb-list-action", "id", "string", <<>>, <<>>)>>),
     AttributesSection(
         <<DirectFragment("cb-list-action", "tags", "jsonarray", <<>>, <<>>)>>),
     \* a list with the class that is no div, a list group further on
     <<Comment("attributes"),
       Element("ul", <<"cb-list-group">>, <<StatusFragment("enumerated string")>>),
       Element("div", <<"cb-list-group">>, <<StatusFragment("enumerated string")>>)>>,
     \* texts and comments between the fragments, fragments inside a fragment
     AttributesSection(
         <<Text("\n"),
           DirectFragment("cb-list-action", "billing_address", "optional", <<>>,
               GroupIn(<<DirectFragment("cb-sublist-action", "line1",
                                        "optional, string", <<>>, <<>>)>>)),
           Comment("attributes"), Text("\n"),
           DirectFragment("cb-list-action", "sort_by", "string filter", <<>>, <<>>),
           ReferenceFragment("customer", "optional, customer")>>),
     \* a list group, then a comment that no list group follows
     AttributesSection(
         <<DirectFragment("cb-list-action", "id", "string", <<>>, <<>>)>>)
         \o <<Comment("attributes"),
              Element("p", <<"lead">>, <<Text("Attributes")>>)>>}

AuxiliaryParts ==
    {<<>>,
     AuxiliarySection("billing_address_attributes",
         <<DirectFragment("cb-list-action", "line1", "optional, string", <<>>, <<>>),
           Text("\n"),
           DirectFragment("cb-list-action", "zip", "integer", <<>>, <<>>)>>,
         <<Element("p", <<>>, <<Text("end")>>),
           DirectFragment("cb-list-action", "late", "string", <<>>, <<>>)>>),
     AuxiliarySection("subscription_attributes",
         <<DirectFragment("cb-list-action", "id", "string", <<>>, <<>>)>>, <<>>),
     \* a header followed by an element without the class; a second header
     \* right after the list of the first; a comment before a list
     AuxiliarySection("card_attributes", <<>>,
         <<Element("p", <<"cb-list-group">>, <<Text("none")>>),
           DirectFragment("cb-list-action", "late", "string", <<>>, <<>>)>>)
         \o AuxiliarySection("billing_address_attributes",
                <<DirectFragment("cb-list-action", "line1", "optional, string",
                                 <<>>, <<>>)>>, <<>>)
         \o AuxiliarySection("shipping_address_attributes",
                <<Comment("list"),
                  DirectFragment("cb-list-action", "sort_by[", "string filter",
                                 <<>>, <<>>)>>, <<>>),
     \* identifiers that do not end in _attributes, and one that holds
     \* _attributes twice
     AuxiliarySection("attributes",
         <<DirectFragment("cb-list-action", "id", "string", <<>>, <<>>)>>, <<>>)
         \o AuxiliarySection("card_attributes_old",
                <<DirectFragment("cb-list-action", "cvv", "string", <<>>, <<>>)>>,
                <<>>)
         \o AuxiliarySection("plan_attributes_tier_attributes",
                <<DirectFragment("cb-list-action", "price", "integer", <<>>, <<>>)>>,
                <<>>)}

MethodParts ==
    {<<>>,
     MethodSection("{\"subscription\": {", "chargebee.subscription.retrieve(<subscription_id>)",
                   <<>>),
     MethodSection("{\"list\": [{", "chargebee.subscription.list({params})",
                   <<DirectFragment("cb-list-action", "sort_by[", "optional, string filter",
                                    <<>>, <<>>)>>),
     MethodSection("{\"subscription\": {",
                   "chargebee.subscription.update(<subscription_id>,{params})",
                   <<DirectFragment("cb-list-action", "plan_id", "optional, string",
                                    <<>>, <<>>),
                     SubGroupFragment(<<>>, "card", <<Text("Parameters for card")>>,
                         <<DirectFragment("cb-sublist-action", "cvv",
                                          "optional, string", <<>>, <<>>)>>)>>),
     <<Heading("", <<Text("Sample Result")>>)>>,
     \* braces with nothing between them
     MethodSection("{\"list\": [{", "chargebee.subscription.list({})",
                   <<DirectFragment("cb-list-action", "limit", "optional, integer",
                                    <<>>, <<>>)>>),
     \* two methods; parameters among a text, a reference and a fragment
     \* that carries only the cb-list class
     MethodSection("{\"subscription\": {",
                   "chargebee.subscription.cancel(<subscription_id>, {params})",
                   <<Text("\n"),
                     ReferenceFragment("customer", "optional, customer"),
                     DirectFragment("cb-list-action", "end_of_term",
                                    "optional, boolean", <<>>, <<>>)>>)
         \o MethodSection("{\"subscription\": {",
                          "chargebee.subscription.delete(<subscription_id>)",
                          <<DirectFragment("cb-list-action", "unused", "string",
                                           <<>>, <<>>)>>)}

\* the resource pages the module generator is run on
ModulePages ==
    {parseAst(Markup(Document(modelClass \o attributes \o auxiliary \o methods))) :
        modelClass \in ModelClassParts, attributes \in AttributesParts,
        auxiliary \in AuxiliaryParts, methods \in MethodParts}

(***************************************************************************)
(* generateErrorNamespace, generateRequestNamespace (index.ts 735-1068)    *)
(***************************************************************************)
errorInterfaces ==
    <<[interfaceName |-> "PaymentErrorObject", type |-> Some("payment"),
       api_error_code |->
           Some(<<"payment_processing_failed", "payment_method_verification_failed",
                  "payment_method_not_present",
                  "payment_gateway_currency_incompatible",
                  "payment_intent_invalid", "payment_intent_invalid_amount">>)],
      [interfaceName |-> "InvalidRequestErrorObject",
       type |-> Some("invalid_request"),
       api_error_code |->
           Some(<<"resource_not_found", "resource_limit_exhausted",
                  "param_wrong_value", "duplicate_entry", "db_connection_failure",
                  "invalid_state_for_request", "http_method_not_supported",
                  "invalid_request", "resource_limit_exceeded">>)],
      [interfaceName |-> "OperationFailedErrorObject",
       type |-> Some("operation_failed"),
       api_error_code |->
           Some(<<"internal_error", "internal_temporary_error", "request_blocked",
                  "api_request_limit_exceeded", "site_not_ready",
                  "site_read_only_mode">>)],
      [interfaceName |-> "IOErrorErrorObject", type |-> Some("io_error"),
       api_error_code |-> None],
      [interfaceName |-> "ClientErrorErrorObject", type |-> Some("client_error"),
       api_error_code |-> None],
      [interfaceName |-> "MiscErrorObject", type |-> None,
       api_error_code |->
           Some(<<"api_authentication_failed", "api_authorization_failed",
                  "site_not_found", "configuration_incompatible">>)]>>

\* an error interface that always has a type, "misc" when none is given
ErrorInterfaceDeclarationTyped(errorInterface) ==
    [kind |-> "interface", name |-> errorInterface.interfaceName,
     exported |-> FALSE, extends |-> "ErrorObjectBase",
     members |->
         <<PropertySignature("type", FALSE,
               UnionType(<<IF errorInterface.type # None
                           THEN errorInterface.type[1] ELSE "misc">>))>>
         \o (IF errorInterface.api_error_code # None
             THEN <<PropertySignature("api_error_code", FALSE,
                                      UnionType(errorInterface.api_error_code[1]))>>
             ELSE <<>>)]

\* interface <name> extends ErrorObjectBase { type; api_error_code } (798-841)
ErrorInterfaceDeclaration(errorInterface) ==
    [kind |-> "interface", name |-> errorInterface.interfaceName,
     exported |-> FALSE, extends |-> "ErrorObjectBase",
     members |->
         (IF errorInterface.type # None
          THEN <<PropertySignature("type", FALSE,
                                   UnionType(<<errorInterface.type[1]>>))>>
          ELSE <<>>)
         \o (IF errorInterface.api_error_code # None
             THEN <<PropertySignature("api_error_code", FALSE,
                                      UnionType(errorInterface.api_error_code[1]))>>
             ELSE <<>>)]

generateErrorNamespace ==
    [kind |-> "namespace", name |-> "error", exported |-> TRUE,
     statements |->
         <<InterfaceDeclaration("ErrorObjectBase", FALSE,
               <<PropertySignature("message", FALSE, KeywordType("string")),
                 PropertySignature("param", TRUE, KeywordType("string"))>>)>>
         \o [i \in DOMAIN errorInterfaces |->
                ErrorInterfaceDeclaration(errorInterfaces[i])]
         \o <<InterfaceDeclaration("ErrorObjectMap", FALSE,
                  [i \in DOMAIN errorInterfaces |->
                      PropertySignature(errorInterfaces[i].interfaceName, FALSE,
                          TypeReference(errorInterfaces[i].interfaceName))]),
              [kind |-> "typeAlias", name |-> "ErrorObject",
               type |-> "ErrorObjectMap[keyof ErrorObjectMap]"]>>]

\* the request plumbing contracts, by name
generateRequestNamespace ==
    [kind |-> "namespace", name |-> "request", exported |-> TRUE,
     statements |->
         <<[kind |-> "interface", name |-> "ResponseHandler"],
           [kind |-> "interface", name |-> "RequestWrapper"],
           [kind |-> "interface", name |-> "RequestFactory"]>>]

(***************************************************************************)
(* getApiPage (pageCache.ts 23-63)                                         *)
(***************************************************************************)
\* JSON.stringify(tree, null, 2): the text keeps what the nodes hold, not
\* which objects they are; JSON.parse builds fresh objects from it
\* a serialisation that leaves the properties of the elements out
JSONStringifyWithoutProperties(tree) ==
    LET RECURSIVE Strip(_)
        Strip(node) ==
            [node EXCEPT !.className = <<>>, !.href = "", !.id = "", !.nid = <<>>,
                         !.children = [i \in DOMAIN node.children |->
                                          Strip(node.children[i])]]
    IN  [json |-> Strip(tree)]

JSONStringify(tree) == [json |-> Content(tree)]
JSONParse(text) == WithIds(text.json, <<1>>)

\* an upstream answer: the page, or a status that is not OK
OkResponse(document) ==
    [ok |-> TRUE, status |-> "200", statusText |-> "OK", text |-> Markup(document)]
FailedResponse(status, statusText) ==
    [ok |-> FALSE, status |-> status, statusText |-> statusText,
     text |-> Markup(Document(<<>>))]

\* a cache directory whose files are never found
FileNeverExists(files, filePath) == FALSE

\* fs.existsSync(path) / readFileSync / writeFileSync on the cache directory
FileExists(files, filePath) == filePath \in DOMAIN files
WriteFile(files, filePath, data) ==
    [f \in DOMAIN files \cup {filePath} |->
        IF f = filePath THEN data ELSE files[f]]

\* the file a page is cached in (28)
Filename(name) == IF Len(name) > 0 THEN name \o ".html" ELSE "index.html"

\* the page a call is logged under (32)
ResourceTitle(name) == IF Len(name) > 0 THEN name ELSE "index"

\* the error of a fetch whose response is not OK (43-45)
RetrievalError(name, response) ==
    "Failed to retrieve resource: " \o ResourceTitle(name) \o ": "
        \o response.status \o ": " \o response.statusText

\* a retrieval that stores what the server sent before it tests the status
PageContentsStoredFirst(name, files, response) ==
    IF ~FileExists(files, Filename(name))
    THEN [error |-> IF response.ok THEN "" ELSE RetrievalError(name, response),
          fetched |-> TRUE, contents |-> response.text,
          files |-> WriteFile(files, Filename(name), response.text),
          written |-> <<Filename(name)>>]
    ELSE [error |-> "", fetched |-> FALSE, contents |-> files[Filename(name)],
          files |-> files, written |-> <<>>]

\* the markup of a page (37-52): fetched and stored when its file is not in
\* the cache directory, read from the file otherwise; response is what the
\* documentation server answers when it is asked
PageContents(name, files, response) ==
    IF ~FileExists(files, Filename(name))
    THEN IF ~response.ok
         THEN [error |-> RetrievalError(name, response), fetched |-> TRUE,
               contents |-> response.text, files |-> files, written |-> <<>>]
         ELSE [error |-> "", fetched |-> TRUE, contents |-> response.text,
               files |-> WriteFile(files, Filename(name), response.text),
               written |-> <<Filename(name)>>]
    ELSE [error |-> "", fetched |-> FALSE, contents |-> files[Filename(name)],
          files |-> files, written |-> <<>>]

\* the tree of a page (54-60): parsed and stored when its file is not in
\* the cache directory, read back from the file otherwise
PageTree(astFilename, page) ==
    IF ~FileExists(page.files, astFilename)
    THEN [error |-> "", fetched |-> page.fetched, contents |-> page.contents,
          tree |-> parseAst(page.contents),
          files |-> WriteFile(page.files, astFilename,
                              JSONStringify(parseAst(page.contents))),
          written |-> Append(page.written, astFilename)]
    ELSE [error |-> "", fetched |-> page.fetched, contents |-> page.contents,
          tree |-> JSONParse(page.files[astFilename]),
          files |-> page.files, written |-> page.written]

\* a page cache that keeps the tree of every page in the tree file of the
\* index page
GetApiPageSharedTree(name, files, response) ==
    With(PageContents(name, files, response), LAMBDA page :
        IF page.error # "" THEN page
        ELSE PageTree(Filename("") \o ".ast.json", page))

\* getApiPage(name) on the cache directory files, when the documentation
\* server would answer response: the page, or the error thrown, whether the
\* server was asked, the files written and the files of the cache directory
\* afterwards.  The directory itself is made when missing (24-26), so its
\* files are all there is to it.
GetApiPage(name, files, response) ==
    With(PageContents(name, files, response), LAMBDA page :
        IF page.error # "" THEN page
        ELSE PageTree(Filename(name) \o ".ast.json", page))

(***************************************************************************)
(* generateModules: resource discovery (index.ts 1127-1149)                *)
(***************************************************************************)
\* /^\/docs\/api\/([a-z_]+)$/.exec(href): the captured segment, or null
ResourcePathSegment(href) ==
    LET segment == Slice(href, 11, Len(href))
    IN  IF /\ Slice(href, 1, 10) = "/docs/api/"
           /\ segment # ""
           /\ AllChars(segment, "abcdefghijklmnopqrstuvwxyz_")
        THEN Some(segment) ELSE None

\* an array that keeps every pushed value
Push(segments, segment) == Append(segments, segment)

\* a set that iterates from its newest value to its oldest
SetAddFront(segments, segment) ==
    IF ArrIncludes(segments, segment) THEN segments ELSE <<segment>> \o segments

\* Set.prototype.add: insertion order, no value twice
SetAdd(segments, segment) ==
    IF ArrIncludes(segments, segment) THEN segments ELSE Append(segments, segment)

\* the segments of the resource links of an index page (1131-1149)
RECURSIVE AddSegments(_, _, _)
AddSegments(anchors, i, segments) ==
    IF i > Len(anchors) THEN segments
    ELSE AddSegments(anchors, i + 1,
             SetAdd(segments, ResourcePathSegment(anchors[i].node.href)[1]))

DiscoverResourcePathSegments(indexPageTree_) ==
    AddSegments(
        SelectSeq(Visit(indexPageTree_, "element"),
            LAMBDA e : /\ e.node.tagName = "a"
                       /\ HasClass(e.node, "list-group-item")
                       /\ e.node.href # ""
                       /\ ResourcePathSegment(e.node.href) # None),
        1, <<>>)

(***************************************************************************)
(* What the documentation server may serve.                                *)
(***************************************************************************)
IndexAnchors ==
    {Anchor(<<"list-group-item">>, "/docs/api/subscriptions", <<Text("Subscriptions")>>),
     Anchor(<<"list-group-item">>, "/docs/api/customers", <<Text("Customers")>>),
     Anchor(<<"list-group-item">>, "/docs/api/v2", <<Text("Versions")>>),
     Anchor(<<"nav-link">>, "/docs/api/plans", <<Text("Plans")>>)}

RECURSIVE AnchorLists(_)
AnchorLists(n) ==
    IF n = 0 THEN {<<>>}
    ELSE LET shorter == AnchorLists(n - 1)
         IN  shorter \cup {Append(l, a) : l \in shorter, a \in IndexAnchors}

IndexDocuments ==
    {Document(<<Element("div", <<"list-group">>, anchors)>>) :
        anchors \in AnchorLists(MaxAnchors)}

\* the namespace a resource page declares
ResourceNamespace(name) ==
    IF name = "subscriptions" THEN "subscription"
    ELSE IF name = "customers" THEN "customer"
    ELSE name

\* a resource page as documented, the same page after the documentation
\* changed, and a page the extraction rules do not fit
ResourceDocuments(name) ==
    {Document(ModelClassSection("chargebee." \o ResourceNamespace(name))
                  \o AttributesSection(<<StatusFragment("enumerated string")>>)),
     Document(ModelClassSection("chargebee." \o ResourceNamespace(name))
                  \o AttributesSection(
                         <<StatusFragment("optional, enumerated string"),
                           DirectFragment("cb-list-action", "id", "string",
                                          <<>>, <<>>)>>)
                  \o MethodSection("{\"" \o ResourceNamespace(name) \o "\": {",
                                   "chargebee." \o ResourceNamespace(name)
                                       \o ".delete(<id>)", <<>>)
                  \o MethodSection("{\"list\": [{",
                                   "chargebee." \o ResourceNamespace(name)
                                       \o ".list({params})",
                                   <<DirectFragment("cb-list-action", "limit",
                                                    "optional, integer", <<>>, <<>>)>>)),
     Document(ModelClassSection("chargebee." \o ResourceNamespace(name)))}

Responses(name) ==
    {FailedResponse("503", "Service Unavailable"),
     FailedResponse("404", "Not Found")}
        \cup {OkResponse(document) :
                 document \in IF name = "" THEN IndexDocuments
                              ELSE ResourceDocuments(name)}

\* await fetch(...) (37-41): the server is asked, and answers, only for a
\* page that is not in the cache directory
NotFetched == FailedResponse("", "")
Fetch(name, files) ==
    IF FileExists(files, Filename(name)) THEN {NotFetched} ELSE Responses(name)

\* what a call of getApiPage did to the outside: the request it sent with
\* the answer it got, then the files it wrote
FetchEvent(name, response) ==
    [op |-> "fetch", name |-> name, ok |-> response.ok,
     status |-> response.status, statusText |-> response.statusText]
WriteEvent(filename) ==
    [op |-> "write", name |-> filename, ok |-> TRUE, status |-> "",
     statusText |-> ""]
IoOf(name, response, page) ==
    (IF page.fetched THEN <<FetchEvent(name, response)>> ELSE <<>>)
        \o [i \in DOMAIN page.written |-> WriteEvent(page.written[i])]

(***************************************************************************)
(* The parts of the state a specification leaves alone.                    *)
(***************************************************************************)
CaseIdle ==
    /\ snakeCase = ""
    /\ pascalIndex = None
    /\ pascalParse = None
    /\ pascalTwice = None
    /\ pascalParseTwice = None

SignatureIdle ==
    /\ propertyElement = Root(<<>>)
    /\ signatureResult = None
    /\ parseResult = None

ModuleIdle ==
    /\ modulePage = Root(<<>>)
    /\ moduleResult = None

AdjacentIdle ==
    /\ adjacentParent = Root(<<>>)
    /\ adjacentPosition = 0
    /\ adjacentResult = None
    /\ adjacentIndexedResult = None

MainIdle ==
    /\ pc = "idle"
    /\ run = 0
    /\ cacheFiles = <<>>
    /\ indexPageTree = None
    /\ resourcePathSegments = <<>>
    /\ pending = <<>>
    /\ modulePageTree = None
    /\ statements = <<>>
    /\ namespaceExportMappings = <<>>
    /\ requests = <<>>
    /\ io = <<>>
    /\ extracted = <<>>
    /\ failure = None
    /\ definitionFile = None
    /\ writes = 0
    /\ firstOutput = None

(***************************************************************************)
(* SpecCase: both converters applied to a snake_case string, and applied   *)
(* again to their own result.                                              *)
(***************************************************************************)
InitCase ==
    /\ snakeCase \in SnakeStrings(MaxCaseLen)
    /\ pascalIndex = None
    /\ pascalParse = None
    /\ pascalTwice = None
    /\ pascalParseTwice = None
    /\ SignatureIdle /\ ModuleIdle /\ AdjacentIdle /\ MainIdle

ConvertIndex ==
    /\ pascalIndex = None
    /\ pascalIndex' = Some(snakeCaseToPascalCase(snakeCase))
    /\ UNCHANGED <<snakeCase, pascalParse, pascalTwice, pascalParseTwice>>
    /\ UNCHANGED <<signatureVars, moduleVars, mainVars, adjacentVars>>

ConvertParse ==
    /\ pascalParse = None
    /\ pascalParse' = Some(fromSnakeCaseToPascalCase(snakeCase))
    /\ UNCHANGED <<snakeCase, pascalIndex, pascalTwice, pascalParseTwice>>
    /\ UNCHANGED <<signatureVars, moduleVars, mainVars, adjacentVars>>

ConvertIndexAgain ==
    /\ pascalIndex # None
    /\ pascalTwice = None
    /\ pascalTwice' = Some(snakeCaseToPascalCase(pascalIndex[1]))
    /\ UNCHANGED <<snakeCase, pascalIndex, pascalParse, pascalParseTwice>>
    /\ UNCHANGED <<signatureVars, moduleVars, mainVars, adjacentVars>>

ConvertParseAgain ==
    /\ pascalParse # None
    /\ pascalParseTwice = None
    /\ pascalParseTwice' = Some(fromSnakeCaseToPascalCase(pascalParse[1]))
    /\ UNCHANGED <<snakeCase, pascalIndex, pascalParse, pascalTwice>>
    /\ UNCHANGED <<signatureVars, moduleVars, mainVars, adjacentVars>>

NextCase ==
    \/ ConvertIndex
    \/ ConvertParse
    \/ ConvertIndexAgain
    \/ ConvertParseAgain

SpecCase == InitCase /\ [][NextCase]_vars

\* C9: converting a snake_case string twice gives what converting it once
\* gives, with either converter, and the two converters agree on every
\* string.
PascalCaseIdempotent ==
    /\ pascalTwice # None => pascalTwice = pascalIndex
    /\ pascalParseTwice # None => pascalParseTwice = pascalParse
    /\ (pascalIndex # None /\ pascalParse # None) => pascalIndex = pascalParse

\* a string with two segments went through both converters, twice
PascalCaseWitness ==
    /\ snakeCase = "ab_b"
    /\ pascalIndex = Some("AbB")
    /\ pascalParse = Some("AbB")
    /\ pascalTwice = Some("AbB")
    /\ pascalParseTwice = Some("AbB")

(***************************************************************************)
(* SpecSignature: generateInterfacePropertySignature applied to one        *)
(* property fragment.                                                      *)
(***************************************************************************)
InitSignature ==
    /\ propertyElement \in PropertyElements
    /\ signatureResult = None
    /\ parseResult = None
    /\ CaseIdle /\ ModuleIdle /\ AdjacentIdle /\ MainIdle

GenerateSignature ==
    /\ signatureResult = None
    /\ signatureResult' = Some(generateInterfacePropertySignature(propertyElement))
    /\ UNCHANGED <<propertyElement, parseResult>>
    /\ UNCHANGED <<caseVars, moduleVars, mainVars, adjacentVars>>

\* parsePropertyElements on the fragment alone (parseResource.ts 100-140)
ParseProperty ==
    /\ parseResult = None
    /\ parseResult' = Some(parsePropertyElements(<<propertyElement>>, 1))
    /\ UNCHANGED <<propertyElement, signatureResult>>
    /\ UNCHANGED <<caseVars, moduleVars, mainVars, adjacentVars>>

NextSignature ==
    \/ GenerateSignature
    \/ ParseProperty

SpecSignature == InitSignature /\ [][NextSignature]_vars

(***************************************************************************)
(* What the documentation says about a fragment, read off the markup.      *)
(***************************************************************************)
IsSubGroup(fragment) == HasClass(fragment, "sub-group")

IsReference(fragment) ==
    /\ ~IsSubGroup(fragment)
    /\ ~HasClass(fragment, "cb-list-action")
    /\ ~HasClass(fragment, "cb-sublist-action")

IsDirect(fragment) == ~IsSubGroup(fragment) /\ ~IsReference(fragment)

\* the nodes of a tree in document order: a node, then the nodes of each
\* of its children from first to last
RECURSIVE DocumentOrder(_)
RECURSIVE DocumentOrderOfChildren(_, _)
DocumentOrder(node) == <<node>> \o DocumentOrderOfChildren(node, 1)
DocumentOrderOfChildren(node, i) ==
    IF i > Len(node.children) THEN <<>>
    ELSE DocumentOrder(node.children[i]) \o DocumentOrderOfChildren(node, i + 1)

\* the nodes of a tree that satisfy a test, in document order
Descendants(node, Test(_)) == SelectSeq(DocumentOrder(node), Test)

\* the texts written directly in the nodes of a sequence
TextsOf(nodes) ==
    [i \in DOMAIN nodes |->
        LET texts == SelectSeq(nodes[i].children, LAMBDA c : c.type = "text")
        IN  IF texts = <<>> THEN "" ELSE texts[1].value]

\* the description of a fragment: of its list head for a sub-group
FragmentDescriptions(fragment) ==
    IF IsSubGroup(fragment)
    THEN Descendants(fragment, LAMBDA n : HasClass(n, "cb-list-desc"))
    ELSE ChildElementsWithClass(fragment, "cb-list-desc")

\* the definition list of a fragment: the muted definition of its
\* description split on ", ", each item without surrounding blanks
DefinitionTokens(fragment) ==
    LET descriptions == FragmentDescriptions(fragment)
        dfns == IF descriptions = <<>> THEN <<>>
                ELSE TextsOf(Descendants(descriptions[1],
                         LAMBDA n : n.tagName = "dfn" /\ HasClass(n, "text-muted")))
        items == IF dfns = <<>> THEN <<>> ELSE Split(dfns[1], ", ")
    IN  {Trim(items[i]) : i \in DOMAIN items}

\* the fragment went through the generator and fields were emitted for it
Emitted == signatureResult # None /\ ~Threw(signatureResult[1])
EmittedFields == signatureResult[1].value

\* the name written in the samp element of a direct definition
WrittenName(fragment) ==
    TextsOf(Descendants(fragment, LAMBDA n : n.tagName = "samp"))[1]

IsFilterFragment(fragment) ==
    IsDirect(fragment) /\ DefinitionTokens(fragment) \cap FilterDefinitions # {}

HasNestedList(fragment) ==
    ChildElementsWithClass(fragment, "cb-list-group-in") # <<>>

\* C1 as stated: every emitted field is optional exactly when the
\* definition list of its fragment holds the token "optional", sub-group
\* fragments included.
OptionalIffTokenEverywhere ==
    Emitted =>
        \A i \in DOMAIN EmittedFields :
            EmittedFields[i].optional
                <=> ("optional" \in DefinitionTokens(propertyElement))

\* C1 amended: for a direct definition, an interface reference, a filter
\* family and an inline nested object every emitted field is optional
\* exactly when the definition list holds the token "optional"; the field
\* of a sub-group fragment is always optional.
OptionalIffToken ==
    Emitted =>
        \A i \in DOMAIN EmittedFields :
            EmittedFields[i].optional
                <=> \/ IsSubGroup(propertyElement)
                    \/ "optional" \in DefinitionTokens(propertyElement)

\* an optional token written last, with blanks around it, made a field
\* optional, and a sub-group without the token was emitted optional
OptionalWitness ==
    /\ Emitted
    /\ IsDirect(propertyElement)
    /\ DefinitionTokens(propertyElement) = {"enumerated string", "optional"}
    /\ WrittenName(propertyElement) = "status"
    /\ Len(EmittedFields) = 1
    /\ EmittedFields[1].optional

\* the fields a fragment is to contribute: one per operator for a filter,
\* named after the base name, one otherwise
ExpectedFieldCount(fragment) ==
    IF IsFilterFragment(fragment)
    THEN LET operators ==
                 FilterOperators(FilterName(WrittenName(fragment)),
                                 FragmentDescriptions(fragment)[1])
         IN  IF Threw(operators) \/ operators.value = None THEN 0
             ELSE Len(operators.value[1])
    ELSE 1

RECURSIVE SumFieldCounts(_, _)
SumFieldCounts(fragments, i) ==
    IF i > Len(fragments) THEN 0
    ELSE ExpectedFieldCount(fragments[i]) + SumFieldCounts(fragments, i + 1)

\* the child fragments of an inline object or of a sub-group
NestedFragments(fragment) ==
    LET lists == IF IsSubGroup(fragment)
                 THEN ChildElementsWithClass(fragment, "collapse")
                 ELSE ChildElementsWithClass(fragment, "cb-list-group-in")
    IN  IF lists = <<>> THEN <<>>
        ELSE ChildElementsWithClass(lists[1], "cb-sublist-action")

\* the members of the object type emitted for a nested fragment
NestedMembers(type) ==
    IF type.kind = "array" THEN type.elementType.members ELSE type.members

\* C2: a fragment that is not a filter contributes one field, a filter
\* with N operators contributes N fields named baseName[operator] and none
\* named baseName, for the fragment itself and for the children of a
\* sub-group or of an inline object.
OneFieldPerFragment ==
    Emitted =>
        /\ Len(EmittedFields) = ExpectedFieldCount(propertyElement)
        /\ IsFilterFragment(propertyElement) =>
               \A i \in DOMAIN EmittedFields :
                   EmittedFields[i].name # FilterName(WrittenName(propertyElement))
        /\ (~IsFilterFragment(propertyElement)
                /\ (IsSubGroup(propertyElement) \/ HasNestedList(propertyElement)))
               => Len(NestedMembers(EmittedFields[1].type))
                      = SumFieldCounts(NestedFragments(propertyElement), 1)

\* the base name of a filter is sort_by
IsSortByFilter(fragment) ==
    /\ IsFilterFragment(fragment)
    /\ ReplaceFirst(Trim(WrittenName(fragment)), "[", "") = "sort_by"

\* C3: a filter property whose base name is sort_by is emitted as
\* sort_by[asc] then sort_by[desc], whatever operators its description
\* lists, both with the optionality of the property.
SortByAscDesc ==
    (signatureResult # None /\ IsSortByFilter(propertyElement)) =>
        /\ Emitted
        /\ Len(EmittedFields) = 2
        /\ EmittedFields[1].name = "sort_by[asc]"
        /\ EmittedFields[2].name = "sort_by[desc]"
        /\ \A i \in 1..2 :
               EmittedFields[i].optional
                   <=> ("optional" \in DefinitionTokens(propertyElement))

\* a sort_by filter written with the bracket artifact, whose description
\* lists other operators, was emitted
SortByWitness ==
    /\ Emitted
    /\ IsSortByFilter(propertyElement)
    /\ WrittenName(propertyElement) = "sort_by["
    /\ "optional" \in DefinitionTokens(propertyElement)
    /\ Descendants(propertyElement, LAMBDA n : n.tagName = "b") # <<>>
    /\ EmittedFields[2].name = "sort_by[desc]"
    /\ EmittedFields[2].optional

\* the type a reference definition names: the PascalCase form of its first
\* token other than optional, an array when the token starts with "list of "
NamedType(fragment) ==
    LET items == SelectSeq(Definitions(
                     TextsOf(Descendants(fragment,
                         LAMBDA n : n.tagName = "dfn"))[1]),
                     LAMBDA d : d # "optional")
        token == items[1]
    IN  IF Slice(token, 1, 8) = "list of "
        THEN snakeCaseToPascalCase(Slice(token, 9, Len(token))) \o "[]"
        ELSE snakeCaseToPascalCase(token)

\* C4: no interface reference is emitted with the type UnbilledCharge[]:
\* a reference that names it is emitted as UnbilledChargeEstimate[], and
\* every other reference, UnbilledCharge included, keeps the type it names.
UnbilledChargeCorrected ==
    (Emitted /\ IsReference(propertyElement)) =>
        /\ Len(EmittedFields) = 1
        /\ EmittedFields[1].type.kind = "reference"
        /\ EmittedFields[1].type.typeName # "UnbilledCharge[]"
        /\ EmittedFields[1].type.typeName =
               IF NamedType(propertyElement) = "UnbilledCharge[]"
               THEN "UnbilledChargeEstimate[]"
               ELSE NamedType(propertyElement)

\* a reference to a list of unbilled charges was emitted with the
\* corrected type
UnbilledChargeWitness ==
    /\ Emitted
    /\ IsReference(propertyElement)
    /\ DefinitionTokens(propertyElement) = {"optional", "list of unbilled_charge"}
    /\ EmittedFields[1].type = TypeReference("UnbilledChargeEstimate[]")

\* the definition selects the enumerated string shape: no earlier rule of
\* the shape chain applies
IsEnumeratedString(fragment) ==
    /\ IsDirect(fragment)
    /\ ~IsFilterFragment(fragment)
    /\ ~HasNestedList(fragment)
    /\ "enumerated string" \in DefinitionTokens(fragment)
    /\ DefinitionTokens(fragment)
           \cap ({"string", "list of string", "boolean", "jsonobject", "jsonarray"}
                     \cup NumberDefinitions) = {}

\* the enum-value samples under the description, in document order
EnumSamples(fragment) ==
    TextsOf(Descendants(FragmentDescriptions(fragment)[1],
                LAMBDA n : n.tagName = "samp" /\ HasClass(n, "enum")))

\* C5: the union emitted for an enumerated string lists the text of every
\* enum-value sample under the description in document order, repeated
\* values included, so it is as long as there are samples.
EnumUnionInDocumentOrder ==
    (Emitted /\ IsEnumeratedString(propertyElement)
        /\ EnumSamples(propertyElement) # <<>>) =>
        /\ Len(EmittedFields) = 1
        /\ EmittedFields[1].type = UnionType(EnumSamples(propertyElement))
        /\ Len(EmittedFields[1].type.literals)
               = Len(Descendants(propertyElement,
                         LAMBDA n : n.tagName = "samp" /\ HasClass(n, "enum")))

\* samples at two depths, one value repeated, were emitted in document
\* order
EnumUnionWitness ==
    /\ Emitted
    /\ IsEnumeratedString(propertyElement)
    /\ EmittedFields[1].type
           = UnionType(<<"future", "active", "cancelled", "future">>)

(***************************************************************************)
(* SpecModule: generateModule applied to one resource page.                *)
(***************************************************************************)
InitModule ==
    /\ modulePage \in ModulePages
    /\ moduleResult = None
    /\ CaseIdle /\ SignatureIdle /\ AdjacentIdle /\ MainIdle

\* an extraction that takes the children out of the tree as it reads them
GenerateModuleConsumingTree ==
    /\ moduleResult = None
    /\ moduleResult' = Some(generateModule(modulePage))
    /\ modulePage' = [modulePage EXCEPT !.children = <<>>]
    /\ UNCHANGED <<caseVars, signatureVars, mainVars, adjacentVars>>

\* generateModule(modulePageTree): the tree is only read, by find, filter,
\* map and visit; every push is to an array of the generator (1070-1125)
GenerateModule ==
    /\ moduleResult = None
    /\ moduleResult' = Some(generateModule(modulePage))
    /\ UNCHANGED modulePage
    /\ UNCHANGED <<caseVars, signatureVars, mainVars, adjacentVars>>

NextModule == GenerateModule

SpecModule == InitModule /\ [][NextModule]_vars

\* the page has one "Model Class" heading, followed by the code sample
\* chargebee.subscription, and one attributes comment, followed by a list
\* group that holds the enumerated string status with the samples active
\* and cancelled
IsMinimalSubscriptionPage(tree) ==
    LET headings == Descendants(tree,
                        LAMBDA n : n.tagName = "h4"
                                     /\ TextsOf(<<n>>)[1] = "Model Class")
        samples == Descendants(tree,
                       LAMBDA n : n.tagName = "pre" /\ HasClass(n, "lang-js"))
        comments == Descendants(tree,
                        LAMBDA n : n.type = "comment" /\ n.value = "attributes")
        groups == Descendants(tree, LAMBDA n : HasClass(n, "cb-list-group"))
    IN  /\ Len(headings) = 1
        /\ TextsOf(samples) = <<"chargebee.subscription">>
        /\ Len(comments) = 1
        /\ Len(groups) >= 1
        /\ Content(groups[1]).children = <<StatusFragment("enumerated string")>>
        /\ LET body == tree.children[1].children[2].children
           IN  /\ Len(body) >= 6
               /\ Content(body[3]).children[1] = Content(samples[1])
               /\ body[4].type = "comment"
               /\ Content(body[6]) = Content(groups[1])

\* C6: for a page with one "Model Class" heading naming subscription and
\* one attributes list group holding the enumerated string status (active,
\* cancelled), the module is named subscription and its primary interface
\* Subscription has the single property status, required, of type
\* "active" | "cancelled".
MinimalPageModule ==
    (moduleResult # None /\ IsMinimalSubscriptionPage(modulePage)) =>
        /\ modulePage = parseAst(Markup(Document(
               ModelClassSection("chargebee.subscription")
                   \o AttributesSection(<<StatusFragment("enumerated string")>>))))
               => ~Threw(moduleResult[1])
        /\ ~Threw(moduleResult[1]) =>
               /\ moduleResult[1].value.namespaceName = "subscription"
               /\ moduleResult[1].value.namespaceStatement.statements[1]
                      = InterfaceDeclaration("Subscription", TRUE,
                            <<PropertySignature("status", FALSE,
                                  UnionType(<<"active", "cancelled">>))>>)

\* the minimal page went through generateModule and a module came out
MinimalPageWitness ==
    /\ moduleResult # None
    /\ IsMinimalSubscriptionPage(modulePage)
    /\ Len(modulePage.children[1].children[2].children) = 6
    /\ ~Threw(moduleResult[1])
    /\ Len(moduleResult[1].value.namespaceStatement.statements) = 1

(***************************************************************************)
(* Spec: runs of main() (index.ts 1188-1239) against one cache directory.  *)
(* requests, extracted, failure and writes record what the current run     *)
(* has asked for, extracted, thrown and written; firstOutput is the first  *)
(* completed run and the file it wrote.                                    *)
(***************************************************************************)
RunStart ==
    /\ indexPageTree = None
    /\ resourcePathSegments = <<>>
    /\ pending = <<>>
    /\ modulePageTree = None
    /\ statements = <<>>
    /\ namespaceExportMappings = <<>>
    /\ requests = <<>>
    /\ io = <<>>
    /\ extracted = <<>>
    /\ failure = None
    /\ writes = 0

Init ==
    /\ pc = "start"
    /\ run = 1
    /\ cacheFiles = <<>>
    /\ definitionFile = None
    /\ firstOutput = None
    /\ RunStart
    /\ CaseIdle /\ SignatureIdle /\ ModuleIdle /\ AdjacentIdle

\* process.exit(1) from main().catch (1236-1239)
Abort(step, name, error) ==
    /\ pc' = "aborted"
    /\ failure' = Some([step |-> step, name |-> name, error |-> error])

\* the prettier options are read and the output directory made (1189-1193);
\* an unreadable options file ends the run
ReadOptions ==
    /\ pc = "start"
    /\ \E readable \in BOOLEAN :
           IF readable THEN pc' = "index" /\ UNCHANGED failure
           ELSE Abort("options", "", "ENOENT")
    /\ UNCHANGED <<run, cacheFiles, indexPageTree, resourcePathSegments, pending,
                   modulePageTree, statements, namespaceExportMappings, requests,
                   extracted, definitionFile, writes, firstOutput>>
    /\ UNCHANGED io
    /\ UNCHANGED <<caseVars, signatureVars, moduleVars, adjacentVars>>

\* const { tree: indexPageTree } = await pageCache.getApiPage("") (1194)
GetIndexPage ==
    /\ pc = "index"
    /\ \E response \in Fetch("", cacheFiles) :
       \E page \in {GetApiPage("", cacheFiles, response)} :
               /\ requests' = Append(requests, "")
               /\ io' = io \o IoOf("", response, page)
               /\ cacheFiles' = page.files
               /\ IF page.error # ""
                  THEN Abort("retrieve", "", page.error)
                           /\ UNCHANGED indexPageTree
                  ELSE /\ pc' = "discover"
                       /\ indexPageTree' = Some(page.tree)
                       /\ UNCHANGED failure
    /\ UNCHANGED <<run, resourcePathSegments, pending, modulePageTree, statements,
                   namespaceExportMappings, extracted, definitionFile, writes,
                   firstOutput>>
    /\ UNCHANGED <<caseVars, signatureVars, moduleVars, adjacentVars>>

\* generateModules up to its loop (1128-1154)
DiscoverResources ==
    /\ pc = "discover"
    /\ resourcePathSegments' = DiscoverResourcePathSegments(indexPageTree[1])
    /\ pending' = resourcePathSegments'
    /\ statements' = <<>>
    /\ namespaceExportMappings' = <<>>
    /\ pc' = "loop"
    /\ UNCHANGED <<run, cacheFiles, indexPageTree, modulePageTree, requests,
                   extracted, failure, definitionFile, writes, firstOutput>>
    /\ UNCHANGED io
    /\ UNCHANGED <<caseVars, signatureVars, moduleVars, adjacentVars>>

\* await pageCache.getApiPage(resourcePathSegment) (1155-1158)
RequestPage ==
    /\ pc = "loop"
    /\ pending # <<>>
    /\ \E response \in Fetch(Head(pending), cacheFiles) :
       \E page \in {GetApiPage(Head(pending), cacheFiles, response)} :
               /\ requests' = Append(requests, Head(pending))
               /\ io' = io \o IoOf(Head(pending), response, page)
               /\ cacheFiles' = page.files
               /\ IF page.error # ""
                  THEN Abort("retrieve", Head(pending), page.error)
                           /\ UNCHANGED modulePageTree
                  ELSE /\ pc' = "extract"
                       /\ modulePageTree' = Some(page.tree)
                       /\ UNCHANGED failure
    /\ UNCHANGED <<run, indexPageTree, resourcePathSegments, pending, statements,
                   namespaceExportMappings, extracted, definitionFile, writes,
                   firstOutput>>
    /\ UNCHANGED <<caseVars, signatureVars, moduleVars, adjacentVars>>

\* an extraction that logs the error of a page and goes on to the next
ExtractModuleSkippingErrors ==
    /\ pc = "extract"
    /\ \E module \in {generateModule(modulePageTree[1])} :
           IF Threw(module)
           THEN /\ failure' = Some([step |-> "extract", name |-> Head(pending),
                                    error |-> module.error])
                /\ UNCHANGED <<statements, namespaceExportMappings, extracted>>
           ELSE /\ statements' = Append(statements, module.value.namespaceStatement)
                /\ namespaceExportMappings' =
                       Append(namespaceExportMappings,
                              [namespaceName |-> module.value.namespaceName,
                               prefixedNamespaceName |->
                                   module.value.prefixedNamespaceName])
                /\ extracted' = Append(extracted, Head(pending))
                /\ UNCHANGED failure
    /\ pc' = "loop"
    /\ pending' = Tail(pending)
    /\ UNCHANGED <<run, cacheFiles, indexPageTree, resourcePathSegments,
                   modulePageTree, requests, definitionFile, writes, firstOutput>>
    /\ UNCHANGED io
    /\ UNCHANGED <<caseVars, signatureVars, moduleVars, adjacentVars>>

\* generateModule(modulePageTree) and the two pushes (1159-1165)
ExtractModule ==
    /\ pc = "extract"
    /\ \E module \in {generateModule(modulePageTree[1])} :
           IF Threw(module)
           THEN /\ Abort("extract", Head(pending), module.error)
                /\ UNCHANGED <<statements, namespaceExportMappings, extracted,
                               pending>>
           ELSE /\ statements' = Append(statements, module.value.namespaceStatement)
                /\ namespaceExportMappings' =
                       Append(namespaceExportMappings,
                              [namespaceName |-> module.value.namespaceName,
                               prefixedNamespaceName |->
                                   module.value.prefixedNamespaceName])
                /\ extracted' = Append(extracted, Head(pending))
                /\ pending' = Tail(pending)
                /\ pc' = "loop"
                /\ UNCHANGED failure
    /\ UNCHANGED <<run, cacheFiles, indexPageTree, resourcePathSegments,
                   modulePageTree, requests, definitionFile, writes, firstOutput>>
    /\ UNCHANGED io
    /\ UNCHANGED <<caseVars, signatureVars, moduleVars, adjacentVars>>

\* the export declaration that ends generateModules (1168-1184)
ExportModules ==
    /\ pc = "loop"
    /\ pending = <<>>
    /\ statements' =
           Append(statements,
                  ExportDeclaration(
                      [i \in DOMAIN namespaceExportMappings |->
                          ExportSpecifier(
                              namespaceExportMappings[i].prefixedNamespaceName,
                              namespaceExportMappings[i].namespaceName)]))
    /\ pc' = "write"
    /\ UNCHANGED <<run, cacheFiles, indexPageTree, resourcePathSegments, pending,
                   modulePageTree, namespaceExportMappings, requests, extracted,
                   failure, definitionFile, writes, firstOutput>>
    /\ UNCHANGED io
    /\ UNCHANGED <<caseVars, signatureVars, moduleVars, adjacentVars>>

\* declare module "chargebee" { namespace Chargebee { ... } export = Chargebee }
\* printed and formatted (1205-1232)
DefinitionText(moduleStatements) ==
    [formatted |->
        [kind |-> "module", name |-> "chargebee",
         statements |->
             <<[kind |-> "namespace", name |-> "Chargebee",
                statements |-> <<generateErrorNamespace, generateRequestNamespace>>
                                   \o moduleStatements],
               [kind |-> "exportAssignment", name |-> "Chargebee"]>>]]

\* await fs.writeFile(definitionPath, prettyResult, "utf8") (1233)
WriteDefinitionFile ==
    /\ pc = "write"
    /\ definitionFile' = Some(DefinitionText(statements))
    /\ firstOutput' = IF firstOutput = None
                      THEN Some([run |-> run, file |-> DefinitionText(statements)])
                      ELSE firstOutput
    /\ writes' = writes + 1
    /\ pc' = "done"
    /\ UNCHANGED <<run, cacheFiles, indexPageTree, resourcePathSegments, pending,
                   modulePageTree, statements, namespaceExportMappings, requests,
                   extracted, failure>>
    /\ UNCHANGED io
    /\ UNCHANGED <<caseVars, signatureVars, moduleVars, adjacentVars>>

\* the generator is started again on the same cache directory
StartRun ==
    /\ pc \in {"done", "aborted"}
    /\ run < MaxRuns
    /\ run' = run + 1
    /\ pc' = "start"
    /\ indexPageTree' = None
    /\ resourcePathSegments' = <<>>
    /\ pending' = <<>>
    /\ modulePageTree' = None
    /\ statements' = <<>>
    /\ namespaceExportMappings' = <<>>
    /\ requests' = <<>>
    /\ io' = <<>>
    /\ extracted' = <<>>
    /\ failure' = None
    /\ writes' = 0
    /\ UNCHANGED <<cacheFiles, definitionFile, firstOutput>>
    /\ UNCHANGED <<caseVars, signatureVars, moduleVars, adjacentVars>>

Next ==
    \/ ReadOptions
    \/ GetIndexPage
    \/ DiscoverResources
    \/ RequestPage
    \/ ExtractModule
    \/ ExportModules
    \/ WriteDefinitionFile
    \/ StartRun

Spec == Init /\ [][Next]_vars

(***************************************************************************)
(* Properties of a run.                                                    *)
(***************************************************************************)
\* the resource links of an index page, in document order
ResourceLinks(tree) ==
    Descendants(tree,
        LAMBDA n : /\ n.type = "element"
                   /\ n.tagName = "a"
                   /\ ArrIncludes(n.className, "list-group-item")
                   /\ ResourcePathSegment(n.href) # None)

LinkTargets(tree) ==
    LET links == ResourceLinks(tree)
    IN  {ResourcePathSegment(links[i].href)[1] : i \in DOMAIN links}

Occurrences(seq, value) == Cardinality({i \in DOMAIN seq : seq[i] = value})

Discovered == pc \in {"loop", "extract", "write", "done", "aborted"}
                  /\ indexPageTree # None

\* C7: the discovered resources are the targets of the resource links of the
\* index page, each once however many anchors link to it, and a run asks the
\* page cache for each of them at most once, exactly once when it completes.
DiscoveryDeduplicates ==
    Discovered =>
        /\ LET targets == LinkTargets(indexPageTree[1])
           IN  /\ \A t \in targets : Occurrences(resourcePathSegments, t) = 1
               /\ \A i \in DOMAIN resourcePathSegments :
                      resourcePathSegments[i] \in targets
        /\ \A i \in DOMAIN resourcePathSegments :
               /\ Occurrences(requests, resourcePathSegments[i]) <= 1
               /\ pc \in {"write", "done"} =>
                      Occurrences(requests, resourcePathSegments[i]) = 1

\* a completed run whose index page links three times to two resources
DiscoveryWitness ==
    /\ pc = "done"
    /\ Len(ResourceLinks(indexPageTree[1])) = 3
    /\ Len(resourcePathSegments) = 2
    /\ Len(requests) = 3

NoPartialOutput ==
    /\ writes <= 1
    /\ writes = 1 => /\ pc = "done"
                     /\ failure = None
                     /\ requests = <<"">> \o resourcePathSegments
                     /\ extracted = resourcePathSegments
    /\ failure # None =>
           /\ pc = "aborted"
           /\ writes = 0
           /\ IF failure[1].step = "options"
              THEN requests = <<>> /\ extracted = <<>>
              ELSE IF failure[1].name = ""
              THEN requests = <<"">> /\ extracted = <<>>
              ELSE requests = Append(<<"">> \o extracted, failure[1].name)
    /\ pc = "aborted" => failure # None
    /\ Len(extracted) <= Len(resourcePathSegments)
    /\ extracted = SubSeq(resourcePathSegments, 1, Len(extracted))

\* a run that ended on its second resource page, the first one extracted
NoPartialOutputWitness ==
    /\ pc = "aborted"
    /\ failure # None
    /\ failure[1].step = "extract"
    /\ Len(extracted) = 1
    /\ Len(resourcePathSegments) = 2
    /\ writes = 0

\* the name of the page a step asks the page cache for, and what the call
\* did to the outside
IsRequestStep == Len(requests') = Len(requests) + 1
RequestedName == requests'[Len(requests')]
RequestIo == SubSeq(io', Len(io) + 1, Len(io'))

\* the cache files of a page, by name
RawFileOf(name) == IF name = "" THEN "index.html" ELSE name \o ".html"
TreeFileOf(name) == RawFileOf(name) \o ".ast.json"

\* C11: a call of getApiPage asks the server exactly when the raw-markup
\* file of the page is not in the cache directory, and it asks for that
\* page; no step of any run writes a file the directory already holds, and
\* every file keeps its content, so a run on a warm cache does no fetch.
WarmCacheNoFetch ==
    [][/\ \A f \in DOMAIN cacheFiles :
              f \in DOMAIN cacheFiles' /\ cacheFiles'[f] = cacheFiles[f]
       /\ IsRequestStep =>
              /\ (\E i \in DOMAIN RequestIo : RequestIo[i].op = "fetch")
                     <=> RawFileOf(RequestedName) \notin DOMAIN cacheFiles
              /\ \A i \in DOMAIN RequestIo :
                     IF RequestIo[i].op = "fetch"
                     THEN RequestIo[i].name = RequestedName
                     ELSE RequestIo[i].name \notin DOMAIN cacheFiles
       /\ ~IsRequestStep => io' = io \/ io' = <<>>]_vars

\* a second run completed on the pages the first run cached: three calls
\* of getApiPage, no fetch and no write
WarmCacheWitness ==
    /\ pc = "done"
    /\ run = 2
    /\ firstOutput # None
    /\ firstOutput[1].run = 1
    /\ Len(requests) = 3
    /\ io = <<>>
    /\ \A i \in DOMAIN requests :
           {RawFileOf(requests[i]), TreeFileOf(requests[i])} \subseteq DOMAIN cacheFiles

\* C12: when the server answers the fetch of a page that is not cached with
\* a response that is not OK, the run ends with the error "Failed to
\* retrieve resource: <name or index>: <status>: <status text>" and the
\* cache directory is as it was: neither file of the page is in it.
RetrievalFailureLeavesCache ==
    [][(/\ IsRequestStep
        /\ RequestIo # <<>>
        /\ RequestIo[1].op = "fetch"
        /\ ~RequestIo[1].ok) =>
           /\ RawFileOf(RequestedName) \notin DOMAIN cacheFiles
           /\ pc' = "aborted"
           /\ failure' # None
           /\ failure'[1].error =
                  "Failed to retrieve resource: "
                      \o (IF RequestedName = "" THEN "index" ELSE RequestedName)
                      \o ": " \o RequestIo[1].status
                      \o ": " \o RequestIo[1].statusText
           /\ Len(RequestIo) = 1
           /\ cacheFiles' = cacheFiles
           /\ RawFileOf(RequestedName) \notin DOMAIN cacheFiles'
           /\ TreeFileOf(RequestedName) \notin DOMAIN cacheFiles']_vars

\* the fetch of the second resource page was answered 404 in a run that
\* had cached the index page and the first resource page
RetrievalFailureWitness ==
    /\ pc = "aborted"
    /\ failure # None
    /\ failure[1].error = "Failed to retrieve resource: customers: 404: Not Found"
    /\ Len(extracted) = 1
    /\ "index.html" \in DOMAIN cacheFiles
    /\ "customers.html" \notin DOMAIN cacheFiles
    /\ "customers.html.ast.json" \notin DOMAIN cacheFiles
    /\ io[Len(io)].op = "fetch"

\* the targets of the resource links of an index page in document order,
\* each at its first occurrence
FirstOccurrences(tree) ==
    LET links == ResourceLinks(tree)
    IN  Distinct([i \in DOMAIN links |-> ResourcePathSegment(links[i].href)[1]])

\* the namespaces a sequence of statements declares, in order
NamespacesOf(moduleStatements) ==
    LET namespaces == SelectSeq(moduleStatements, LAMBDA st : st.kind = "namespace")
    IN  [i \in DOMAIN namespaces |-> namespaces[i].name]

\* the names the export list gives, in order
ExportedNames(moduleStatements) ==
    LET exports == SelectSeq(moduleStatements, LAMBDA st : st.kind = "export")
    IN  [i \in DOMAIN exports[1].specifiers |-> exports[1].specifiers[i].name]

\* C13: the resources are taken in the order of the first occurrence of
\* their anchors in the index page, one at a time: a page is requested only
\* when every page requested before it has been extracted, and the
\* namespaces emitted, and the names of the final export list, follow that
\* order.
SequentialInDiscoveryOrder ==
    /\ [](Discovered =>
            /\ resourcePathSegments = FirstOccurrences(indexPageTree[1])
            /\ Len(requests) >= 1
            /\ requests = <<"">> \o SubSeq(resourcePathSegments, 1, Len(requests) - 1)
            /\ extracted = SubSeq(resourcePathSegments, 1, Len(extracted))
            /\ Len(requests) - 1 - Len(extracted) \in {0, 1}
            /\ Len(requests) - 1 - Len(extracted) = 1 => pc \in {"extract", "aborted"}
            /\ NamespacesOf(statements)
                   = [i \in DOMAIN extracted |-> "_" \o ResourceNamespace(extracted[i])]
            /\ pc \in {"write", "done"} =>
                   ExportedNames(statements)
                       = [i \in DOMAIN resourcePathSegments |->
                             ResourceNamespace(resourcePathSegments[i])])
    /\ [][(IsRequestStep /\ RequestedName # "") =>
              /\ Len(requests) = Len(extracted) + 1
              /\ RequestedName = resourcePathSegments[Len(extracted) + 1]]_vars

\* a completed run on an index page that links to customers, subscriptions
\* and customers again
SequentialWitness ==
    /\ pc = "done"
    /\ Len(ResourceLinks(indexPageTree[1])) = 3
    /\ requests = <<"", "customers", "subscriptions">>
    /\ extracted = <<"customers", "subscriptions">>
    /\ NamespacesOf(statements) = <<"_customer", "_subscription">>
    /\ ExportedNames(statements) = <<"customer", "subscription">>

ChildKinds ==
    {Element("p", <<>>, <<>>), Element("div", <<"cb-list">>, <<>>), Text("\n"),
     Comment("attributes")}

RECURSIVE ChildLists(_)
ChildLists(n) ==
    IF n = 0 THEN {<<>>}
    ELSE LET shorter == ChildLists(n - 1)
         IN  shorter \cup {Append(l, c) : l \in shorter, c \in ChildKinds}

AdjacentParents ==
    {WithIds(Element("div", <<>>, children), <<1>>) :
        children \in ChildLists(MaxChildren)}

\* the node passed: the child at a position, or an element of another tree
NodeAt(parentElement, position) ==
    IF position = 0 THEN Some(WithIds(Element("p", <<>>, <<>>), <<2>>))
    ELSE Some(parentElement.children[position])

InitAdjacent ==
    /\ adjacentParent \in AdjacentParents
    /\ adjacentPosition \in 0..Len(adjacentParent.children)
    /\ adjacentResult = None
    /\ adjacentIndexedResult = None
    /\ CaseIdle /\ SignatureIdle /\ ModuleIdle /\ MainIdle

GetAdjacentElement ==
    /\ adjacentResult = None
    /\ adjacentResult' =
           Some(getAdjacentElement(NodeAt(adjacentParent, adjacentPosition),
                                   adjacentParent))
    /\ UNCHANGED <<adjacentParent, adjacentPosition, adjacentIndexedResult>>
    /\ UNCHANGED <<caseVars, signatureVars, moduleVars, mainVars>>

\* the same call on the earlier implementation (1254-1279)
GetAdjacentElementIndexed ==
    /\ adjacentIndexedResult = None
    /\ adjacentIndexedResult' =
           Some(getAdjacentElementIndexed(NodeAt(adjacentParent, adjacentPosition),
                                          adjacentParent))
    /\ UNCHANGED <<adjacentParent, adjacentPosition, adjacentResult>>
    /\ UNCHANGED <<caseVars, signatureVars, moduleVars, mainVars>>

NextAdjacent ==
    \/ GetAdjacentElement
    \/ GetAdjacentElementIndexed

SpecAdjacent == InitAdjacent /\ [][NextAdjacent]_vars

\* the positions of the element children after a position
ElementsAfter(parentElement, position) ==
    {i \in DOMAIN parentElement.children :
        i > position /\ parentElement.children[i].type = "element"}

\* C15: for the child passed, getAdjacentElement returns the child that is
\* the first element at a greater position than that very child, texts and
\* comments skipped, and none when no element follows it, also when an
\* earlier or later child holds the same as the child passed.
AdjacentByIdentity ==
    (adjacentResult # None /\ adjacentPosition >= 1) =>
        LET after == ElementsAfter(adjacentParent, adjacentPosition)
            returned == adjacentResult[1]
        IN  /\ after = {} <=> returned = None
            /\ after # {} =>
                   /\ returned # None
                   /\ returned[1].type = "element"
                   /\ \E i \in after :
                          /\ returned[1] = adjacentParent.children[i]
                          /\ \A j \in after : i <= j
                          /\ \A j \in (adjacentPosition + 1)..(i - 1) :
                                 adjacentParent.children[j].type \in {"text", "comment"}

\* the second of two children that hold the same was passed: the element
\* after the second is returned, not the second itself
AdjacentWitness ==
    /\ adjacentResult # None
    /\ adjacentPosition = 2
    /\ Len(adjacentParent.children) = 3
    /\ Content(adjacentParent.children[1]) = Content(adjacentParent.children[2])
    /\ adjacentParent.children[1].type = "element"
    /\ adjacentParent.children[3].type = "element"
    /\ Content(adjacentParent.children[3]) # Content(adjacentParent.children[2])
    /\ adjacentResult[1] = Some(adjacentParent.children[3])

(***************************************************************************)
(* The shape of a property, read off the markup.                           *)
(***************************************************************************)
\* the fragment has what comes before the choice of a shape: a name in a
\* samp element of its item, a description and a muted definition with text
IsComplete(fragment) ==
    LET items == ChildElementsWithClass(fragment, "cb-list-item")
        descriptions == ChildElementsWithClass(fragment, "cb-list-desc")
    IN  /\ items # <<>>
        /\ LET names == Descendants(items[1], LAMBDA n : n.tagName = "samp")
           IN  /\ names # <<>>
               /\ SelectSeq(names[1].children, LAMBDA c : c.type = "text") # <<>>
               /\ TextsOf(names)[1] # ""
        /\ descriptions # <<>>
        /\ LET dfns == Descendants(descriptions[1],
                           LAMBDA n : n.tagName = "dfn" /\ HasClass(n, "text-muted"))
           IN  /\ dfns # <<>>
               /\ SelectSeq(dfns[1].children, LAMBDA c : c.type = "text") # <<>>

\* the first rule, a to j, that a fragment which is no reference matches
ShapeRule(fragment) ==
    LET tokens == DefinitionTokens(fragment)
    IN  IF IsSubGroup(fragment) THEN "a"
        ELSE IF tokens \cap FilterDefinitions # {} THEN "b"
        ELSE IF HasNestedList(fragment) THEN "c"
        ELSE IF "string" \in tokens THEN "d"
        ELSE IF "list of string" \in tokens THEN "d-list"
        ELSE IF tokens \cap NumberDefinitions # {} THEN "e"
        ELSE IF "boolean" \in tokens THEN "f"
        ELSE IF "jsonobject" \in tokens THEN "g"
        ELSE IF "jsonarray" \in tokens THEN "h"
        ELSE IF "enumerated string" \in tokens THEN "i"
        ELSE "j"

\* the rules whose shape is one type whatever else the fragment holds
FixedShape(rule) ==
    CASE rule = "d" -> KeywordType("string")
      [] rule = "d-list" -> ArrayType(KeywordType("string"))
      [] rule = "e" -> KeywordType("number")
      [] rule = "f" -> KeywordType("boolean")
      [] rule = "g" -> KeywordType("object")
      [] rule = "j" -> KeywordType("unknown")

\* the fields emitted have the shape of a rule
HasShapeOf(rule, fields) ==
    CASE rule = "a" ->
             /\ Len(fields) = 1
             /\ \/ fields[1].type.kind = "typeLiteral"
                \/ /\ fields[1].type.kind = "array"
                   /\ fields[1].type.elementType.kind = "typeLiteral"
      [] rule = "b" ->
             \A i \in DOMAIN fields :
                 /\ fields[i].type = KeywordType("unknown")
                 /\ StrIncludes(fields[i].name, "[")
                 /\ Char(fields[i].name, Len(fields[i].name)) = "]"
      [] rule = "c" -> Len(fields) = 1 /\ fields[1].type.kind = "typeLiteral"
      [] rule = "h" ->
             /\ Len(fields) = 1
             /\ fields[1].type \in {ArrayType(KeywordType("string")),
                                    ArrayType(KeywordType("unknown"))}
      [] rule = "i" ->
             /\ Len(fields) = 1
             /\ \/ fields[1].type.kind = "union"
                \/ fields[1].type = KeywordType("string")
      [] OTHER -> Len(fields) = 1 /\ fields[1].type = FixedShape(rule)

\* C16: the shape emitted for a fragment that is no interface reference is
\* the shape of the first rule it matches in the order sub-group marker,
\* filter token, nested property list, string, list of string, number
\* tokens, boolean, jsonobject, jsonarray, enumerated string, unknown,
\* whatever later rules it matches as well; the rules for the primitive
\* shapes and for unknown never fail, and the errors of the filter and
\* jsonarray rules come only from fragments whose first rule they are, or
\* from the nested fragments of a sub-group or of an inline object.
ShapeFirstMatchWins ==
    (signatureResult # None /\ ~IsReference(propertyElement)) =>
        /\ Emitted => HasShapeOf(ShapeRule(propertyElement), EmittedFields)
        /\ (/\ IsComplete(propertyElement)
            /\ ShapeRule(propertyElement) \in {"d", "d-list", "e", "f", "g", "j"})
               => Emitted
        /\ signatureResult[1].error = "Unable to parse operators."
               => ShapeRule(propertyElement) \in {"b", "a", "c"}
        /\ Slice(signatureResult[1].error, 1, 18) = "Unknown array type"
               => ShapeRule(propertyElement) \in {"h", "a", "c"}

\* a filter with a nested property list was emitted as a filter set
ShapeWitness ==
    /\ Emitted
    /\ IsDirect(propertyElement)
    /\ HasNestedList(propertyElement)
    /\ DefinitionTokens(propertyElement) = {"optional", "string filter"}
    /\ Len(EmittedFields) = 2
    /\ EmittedFields[1].name = "id[is]"
    /\ EmittedFields[2].type = KeywordType("unknown")

\* C17: a property declared enumerated string that has no enum-value
\* samples is emitted as a plain string by generateInterfacePropertySignature
\* and by parsePropertyTypeElement alike: neither fails on it.
EnumDegradesEverywhere ==
    (/\ IsEnumeratedString(propertyElement)
     /\ IsComplete(propertyElement)
     /\ EnumSamples(propertyElement) = <<>>) =>
        /\ signatureResult # None =>
               /\ Emitted
               /\ Len(EmittedFields) = 1
               /\ EmittedFields[1].type = KeywordType("string")
        /\ parseResult # None =>
               /\ ~Threw(parseResult[1])
               /\ Len(parseResult[1].value) = 1
               /\ parseResult[1].value[1][2].typeName = "string"

\* C18: a direct definition whose first rule is jsonarray is emitted as
\* an array of string when it is named notes and as an array of unknown
\* when it is named exemption_details; for any other name the extraction
\* throws "Unknown array type for field: <name>" and emits no field.
JsonArrayByName ==
    (/\ signatureResult # None
     /\ IsDirect(propertyElement)
     /\ IsComplete(propertyElement)
     /\ ShapeRule(propertyElement) = "h") =>
        LET name == WrittenName(propertyElement)
        IN  IF name = "notes"
            THEN /\ Emitted
                 /\ EmittedFields
                        = <<PropertySignature("notes",
                                "optional" \in DefinitionTokens(propertyElement),
                                ArrayType(KeywordType("string")))>>
            ELSE IF name = "exemption_details"
            THEN /\ Emitted
                 /\ EmittedFields
                        = <<PropertySignature("exemption_details",
                                "optional" \in DefinitionTokens(propertyElement),
                                ArrayType(KeywordType("unknown")))>>
            ELSE /\ ~Emitted
                 /\ signatureResult[1].error = "Unknown array type for field: " \o name
                 /\ signatureResult[1].value = <<>>

\* a jsonarray that is neither notes nor exemption_details ended the
\* extraction
JsonArrayWitness ==
    /\ signatureResult # None
    /\ IsDirect(propertyElement)
    /\ DefinitionTokens(propertyElement) = {"jsonarray"}
    /\ WrittenName(propertyElement) = "status"
    /\ signatureResult[1].error = "Unknown array type for field: status"

\* the text of the link in the item of a reference
LinkedName(fragment) ==
    TextsOf(Descendants(ChildElementsWithClass(fragment, "cb-list-item")[1],
                LAMBDA n : n.tagName = "a" /\ n.href # ""))[1]

\* the definition of a reference names a type: it holds a token other
\* than optional
NamesType(fragment) == DefinitionTokens(fragment) \ {"optional"} # {}

\* C19 as stated: a fragment that carries neither list-action class (and is
\* no sub-group) is emitted as one field whose type is a reference named by
\* the PascalCase form of its first token other than optional, "list of "
\* stripped and "[]" appended for a list, whatever token it is; no shape
\* rule makes it fail.
ReferenceNamedByToken ==
    (signatureResult # None /\ IsReference(propertyElement)
        /\ NamesType(propertyElement)) =>
        /\ Emitted
        /\ EmittedFields
               = <<PropertySignature(
                       LinkedName(propertyElement),
                       "optional" \in DefinitionTokens(propertyElement),
                       TypeReference(NamedType(propertyElement)))>>

\* C19 amended: the same, but for the one name the generator overrides: a
\* reference that resolves to UnbilledCharge[] is emitted as
\* UnbilledChargeEstimate[].
ReferenceNamedByTokenOrOverride ==
    (signatureResult # None /\ IsReference(propertyElement)
        /\ NamesType(propertyElement)) =>
        /\ Emitted
        /\ EmittedFields
               = <<PropertySignature(
                       LinkedName(propertyElement),
                       "optional" \in DefinitionTokens(propertyElement),
                       TypeReference(
                           IF NamedType(propertyElement) = "UnbilledCharge[]"
                           THEN "UnbilledChargeEstimate[]"
                           ELSE NamedType(propertyElement)))>>

\* a reference whose definition reads "optional, list of payment_source,
\* string" was emitted as an optional PaymentSource[]
ReferenceWitness ==
    /\ Emitted
    /\ IsReference(propertyElement)
    /\ DefinitionTokens(propertyElement)
           = {"optional", "list of payment_source", "string"}
    /\ EmittedFields[1].optional
    /\ EmittedFields[1].type = TypeReference("PaymentSource[]")

\* a bold element that reads "Supported operators"
IsSupportedOperatorsLabel(n) ==
    /\ n.type = "element"
    /\ n.tagName = "b"
    /\ StrIncludes(TextsOf(<<n>>)[1], "Supported operators")

\* where the labels of a description stand: the parent, by its place in
\* document order, and the position of the label among its children
LabelPlaces(description) ==
    LET nodes == DocumentOrder(description)
    IN  {place \in UNION {{<<k, i>> : i \in DOMAIN nodes[k].children} :
                             k \in DOMAIN nodes} :
            IsSupportedOperatorsLabel(nodes[place[1]].children[place[2]])}

\* the node that follows a label among the children of its parent, if any
NodeAfterLabel(description, place) ==
    LET siblings == DocumentOrder(description)[place[1]].children
    IN  IF place[2] + 1 > Len(siblings) THEN None
        ELSE Some(siblings[place[2] + 1])

\* the name of a filter without blanks around it and without the bracket
\* left at its end
BaseName(name) ==
    LET trimmed == Trim(name)
    IN  IF Len(trimmed) > 0 /\ Char(trimmed, Len(trimmed)) = "["
        THEN Slice(trimmed, 1, Len(trimmed) - 1)
        ELSE trimmed

WithText(nodes) ==
    SelectSeq(nodes, LAMBDA n : SelectSeq(n.children, LAMBDA c : c.type = "text") # <<>>)

\* the list head of a sub-group fragment: the strong-styled texts of its
\* items, the texts of its descriptions
HeadNames(fragment) ==
    LET heads == ChildElementsWithClass(fragment, "cb-list-head")
        items == IF heads = <<>> THEN <<>>
                 ELSE ChildElementsWithClass(heads[1], "cb-list-item")
    IN  IF items = <<>> THEN <<>>
        ELSE TextsOf(WithText(Descendants(items[1], LAMBDA n : n.tagName = "strong")))

HeadIndicators(fragment) ==
    LET heads == ChildElementsWithClass(fragment, "cb-list-head")
    IN  IF heads = <<>> THEN <<>>
        ELSE TextsOf(WithText(ChildElementsWithClass(heads[1], "cb-list-desc")))

\* the child fragments of the nested property list of a sub-group fragment
NestedProperties(fragment) ==
    LET lists == ChildElementsWithClass(fragment, "collapse")
    IN  IF lists = <<>> THEN None
        ELSE Some(ChildElementsWithClass(lists[1], "cb-sublist-action"))

\* the errors that name the parts of a sub-group a fragment lacks
MissingParts(fragment) ==
    (IF HeadNames(fragment) = <<>> THEN {"Unable to parse property name."} ELSE {})
        \cup (IF HeadIndicators(fragment) = <<>> THEN {"Unable to isArray."} ELSE {})
        \cup (IF NestedProperties(fragment) = None
              THEN {"Unable to parse property signatures."} ELSE {})

\* the fields of the child fragments of the nested property list
NestedFields(fragment) ==
    IF NestedProperties(fragment) = None THEN Return(<<>>)
    ELSE FlatSignatures(NestedProperties(fragment)[1], 1)

\* C21: a sub-group fragment yields exactly one field, named by the
\* strong-styled text of its own list head, an array of the nested struct
\* exactly when the description text of its own list head contains "Array",
\* whose members are the fields extracted from the child fragments of its
\* nested property list; a fragment that lacks the name, the indicator or
\* the list fails with the error of a part it lacks (or with the error of
\* a child fragment that cannot be extracted).
SubGroupFromOwnHead ==
    (signatureResult # None /\ IsSubGroup(propertyElement)) =>
        IF Threw(NestedFields(propertyElement)) THEN Threw(signatureResult[1])
        ELSE IF MissingParts(propertyElement) # {}
        THEN signatureResult[1].error \in MissingParts(propertyElement)
        ELSE LET struct == TypeLiteral(NestedFields(propertyElement).value)
             IN  /\ Emitted
                 /\ Len(EmittedFields) = 1
                 /\ EmittedFields[1].name = HeadNames(propertyElement)[1]
                 /\ EmittedFields[1].type =
                        IF StrIncludes(HeadIndicators(propertyElement)[1], "Array")
                        THEN ArrayType(struct) ELSE struct

(***************************************************************************)
(* The sections of a page, read off the markup.                            *)
(***************************************************************************)
\* where the nodes of a tree stand, in document order: the parent and the
\* position among its children
RECURSIVE PlacesIn(_)
RECURSIVE PlacesInChildren(_, _)
PlacesIn(node) == PlacesInChildren(node, 1)
PlacesInChildren(node, i) ==
    IF i > Len(node.children) THEN <<>>
    ELSE <<[parent |-> node, position |-> i]>>
             \o PlacesIn(node.children[i]) \o PlacesInChildren(node, i + 1)

NodeOf(place) == place.parent.children[place.position]

\* the element that follows a place among the children of its parent
AdjacentTo(place) ==
    LET after == ElementsAfter(place.parent, place.position)
    IN  IF after = {} THEN None ELSE Some(place.parent.children[Min(after)])

\* the list groups announced by an "attributes" comment, in the order of
\* the comments
AttributeLists(tree) ==
    LET places == SelectSeq(PlacesIn(tree),
                      LAMBDA place : /\ NodeOf(place).type = "comment"
                                     /\ NodeOf(place).value = "attributes"
                                     /\ AdjacentTo(place) # None
                                     /\ AdjacentTo(place)[1].tagName = "div"
                                     /\ HasClass(AdjacentTo(place)[1], "cb-list-group"))
    IN  [i \in DOMAIN places |-> AdjacentTo(places[i])[1]]

\* the fields of the fragments of a sequence, one fragment after the other
RECURSIVE FieldsOf(_, _)
FieldsOf(fragments, i) ==
    IF i > Len(fragments) THEN <<>>
    ELSE generateInterfacePropertySignature(fragments[i]).value
             \o FieldsOf(fragments, i + 1)

ChildFragments(element) == SelectSeq(element.children, LAMBDA c : c.type = "element")

\* generateModel was reached: a namespace name was found on the page
ModelGenerated ==
    /\ moduleResult # None
    /\ moduleResult[1].error # "Unable to determine namespace name."

PrimaryInterface == moduleResult[1].value.namespaceStatement.statements[1]

\* C22: the properties of the primary entity are the fields of the child
\* fragments of a div with the cb-list-group class that is the element
\* adjacent to an "attributes" comment, in their order; with no such
\* element on the page generateModel fails with an error that names the
\* model, and no module is returned.
PrimaryFromAttributeList ==
    ModelGenerated =>
        LET lists == AttributeLists(modulePage)
            names == NamespaceNames(modulePage)
        IN  IF lists = <<>>
            THEN moduleResult[1].error =
                     "Unable to retrieve property list for model: "
                         \o snakeCaseToPascalCase(names[Len(names)])
            ELSE /\ Slice(moduleResult[1].error, 1, 31)
                        # "Unable to retrieve property list"
                 /\ ~Threw(moduleResult[1]) =>
                        /\ PrimaryInterface.kind = "interface"
                        /\ PrimaryInterface.exported
                        /\ \E k \in DOMAIN lists :
                               PrimaryInterface.members
                                   = FieldsOf(ChildFragments(lists[k]), 1)

\* a list group with texts, a comment and a nested fragment between its
\* three fragments gave four fields
PrimaryWitness ==
    /\ ModelGenerated
    /\ ~Threw(moduleResult[1])
    /\ Len(AttributeLists(modulePage)) = 1
    /\ Len(AttributeLists(modulePage)[1].children) = 6
    /\ Len(PrimaryInterface.members) = 4
    /\ PrimaryInterface.members[1].name = "billing_address"
    /\ PrimaryInterface.members[4].name = "customer"

\* the headers of the auxiliary types: the page-header divs whose h4 has
\* an identifier that ends in _attributes, in document order
HeadingOf(header) == SelectSeq(header.children, LAMBDA c : c.tagName = "h4")

AuxiliaryHeaders(tree) ==
    SelectSeq(PlacesIn(tree),
        LAMBDA place :
            /\ NodeOf(place).tagName = "div"
            /\ HasClass(NodeOf(place), "page-header")
            /\ HeadingOf(NodeOf(place)) # <<>>
            /\ LET id == HeadingOf(NodeOf(place))[1].id
               IN  Len(id) >= 11 /\ Slice(id, Len(id) - 10, Len(id)) = "_attributes")

\* the run of marked elements after a place: the element siblings before
\* the first element sibling without the cb-list class
MarkedRun(place) ==
    LET siblings == place.parent.children
        after == ElementsAfter(place.parent, place.position)
        unmarked == {i \in after : ~HasClass(siblings[i], "cb-list")}
        stop == IF unmarked = {} THEN Len(siblings) + 1 ELSE Min(unmarked)
    IN  SelectSeq([i \in DOMAIN siblings |->
                      IF i \in after /\ i < stop THEN siblings[i] ELSE None],
                  LAMBDA n : n # None)

\* the marked elements that stand after the stop of the run of a place
MarkedAfterStop(place) ==
    LET siblings == place.parent.children
        after == ElementsAfter(place.parent, place.position)
    IN  {i \in after : /\ HasClass(siblings[i], "cb-list")
                       /\ \E j \in after : j < i /\ ~HasClass(siblings[j], "cb-list")}

ModuleStatements == moduleResult[1].value.namespaceStatement.statements

\* C23: the properties of the auxiliary type of a heading are the fields
\* of the following sibling elements that carry the cb-list class, up to
\* the first sibling element without it: texts and comments are skipped,
\* and no element after that one contributes.
AuxiliaryFromMarkedRun ==
    (moduleResult # None /\ ~Threw(moduleResult[1])) =>
        LET headers == AuxiliaryHeaders(modulePage)
        IN  \A k \in DOMAIN headers :
                /\ ModuleStatements[1 + k].kind = "interface"
                /\ ModuleStatements[1 + k].members = FieldsOf(MarkedRun(headers[k]), 1)

\* a type whose run holds a text between two fragments and is followed by
\* an unmarked element and a marked one: two properties were emitted
AuxiliaryRunWitness ==
    /\ moduleResult # None /\ ~Threw(moduleResult[1])
    /\ Len(AuxiliaryHeaders(modulePage)) = 1
    /\ LET header == AuxiliaryHeaders(modulePage)[1]
       IN  /\ Len(MarkedRun(header)) = 2
           /\ MarkedAfterStop(header) # {}
           /\ \E i \in header.position + 1 .. header.position + 3 :
                  header.parent.children[i].type = "text"
           /\ Len(ModuleStatements[2].members) = 2
           /\ ModuleStatements[2].members[2].name = "zip"

\* the name an auxiliary heading gives its type: the identifier without
\* its _attributes suffix, in PascalCase
AuxiliaryName(header) ==
    LET id == HeadingOf(NodeOf(header))[1].id
    IN  snakeCaseToPascalCase(Slice(id, 1, Len(id) - 11))

\* the interfaces of a module that are not exported: its auxiliary types
AuxiliaryInterfaces ==
    SelectSeq(ModuleStatements, LAMBDA st : st.kind = "interface" /\ ~st.exported)

\* C24: the auxiliary types of a module are those of the headings whose
\* identifier ends in _attributes, the section of the primary entity left
\* out, each named by the PascalCase form of the identifier without the
\* suffix; no auxiliary type has the name of the primary entity.
AuxiliaryExcludesPrimary ==
    (moduleResult # None /\ ~Threw(moduleResult[1])) =>
        LET headers == SelectSeq(AuxiliaryHeaders(modulePage),
                           LAMBDA h : AuxiliaryName(h) # PrimaryInterface.name)
        IN  /\ Len(AuxiliaryInterfaces) = Len(headers)
            /\ \A k \in DOMAIN headers :
                   AuxiliaryInterfaces[k].name = AuxiliaryName(headers[k])
            /\ \A k \in DOMAIN AuxiliaryInterfaces :
                   AuxiliaryInterfaces[k].name # PrimaryInterface.name

(***************************************************************************)
(* The methods of a page, read off the markup.                             *)
(***************************************************************************)
\* the position of the n-th element after a place among the children of
\* its parent, 0 when fewer follow
ElementAfter(place, n) ==
    LET after == ElementsAfter(place.parent, place.position)
    IN  IF Cardinality(after) < n THEN 0
        ELSE CHOOSE i \in after : Cardinality({j \in after : j <= i}) = n

\* the h4 headings that read "Sample Result", in document order
SampleHeadings(tree) ==
    SelectSeq(PlacesIn(tree),
        LAMBDA place :
            /\ NodeOf(place).tagName = "h4"
            /\ \E i \in DOMAIN NodeOf(place).children :
                   /\ NodeOf(place).children[i].type = "text"
                   /\ Trim(NodeOf(place).children[i].value) = "Sample Result")

\* the block that holds the call signature of a method: the third element
\* after its heading; the signature is the text of its code sample
SignaturePlace(heading) ==
    [parent |-> heading.parent, position |-> ElementAfter(heading, 3)]

CallSignature(heading) ==
    TextsOf(ChildElementsWithClass(NodeOf(SignaturePlace(heading)), "prettyprint"))[1]

\* the type name of a method: its name in PascalCase
MethodTypeName(heading) ==
    snakeCaseToPascalCase(MethodNameMatch(CallSignature(heading))[1])

\* a "(<" followed by a token of lower-case letters, digits and
\* underscores and a ">"
HasStringArgument(signature) ==
    \E i, j \in 1..Len(signature) :
        /\ Slice(signature, i, i + 1) = "(<"
        /\ j > i + 2
        /\ Char(signature, j) = ">"
        /\ AllChars(Slice(signature, i + 2, j - 1), IdentifierChars)

\* a brace, later a brace
HasBraces(signature) ==
    \E i, j \in 1..Len(signature) :
        Char(signature, i) = "{" /\ Char(signature, j) = "}" /\ i < j

\* a brace, at least one character, a brace
HasObjectArgument(signature) ==
    \E i, j \in 1..Len(signature) :
        Char(signature, i) = "{" /\ Char(signature, j) = "}" /\ i + 1 < j

\* the fields of the children of the n-th element after the signature
\* block that carry the cb-list-action or the sub-group class
ParameterFields(heading, n) ==
    LET position == ElementAfter(SignaturePlace(heading), n)
    IN  IF position = 0 THEN <<>>
        ELSE FieldsOf(SelectSeq(heading.parent.children[position].children,
                          LAMBDA c : /\ c.type = "element"
                                     /\ \/ HasClass(c, "cb-list-action")
                                        \/ HasClass(c, "sub-group")), 1)

\* the statements of the methods of a module: those after the primary
\* interface and the auxiliary interfaces
MethodPart ==
    SubSeq(ModuleStatements, 2 + Len(AuxiliaryInterfaces), Len(ModuleStatements))

MethodInterfaces == SelectSeq(MethodPart, LAMBDA st : st.kind = "interface")
MethodRequests == SelectSeq(MethodPart, LAMBDA st : st.kind = "const")

\* what is emitted for the methods of a page, the object argument told by
\* IsObject and the parameters taken from the n-th element after the
\* signature block
MethodsEmitted(IsObject(_), n) ==
    LET headings == SampleHeadings(modulePage)
    IN  /\ Len(MethodRequests) = Len(headings)
        /\ Len(MethodInterfaces) = Len(headings)
               + Cardinality({k \in DOMAIN headings : IsObject(CallSignature(headings[k]))})
        /\ \A k \in DOMAIN headings :
               LET signature == CallSignature(headings[k])
                   typeName == MethodTypeName(headings[k])
               IN  /\ Cardinality({i \in DOMAIN MethodInterfaces :
                           MethodInterfaces[i].name = typeName \o "Response"}) = 1
                   /\ \E i \in DOMAIN MethodInterfaces :
                          MethodInterfaces[i] =
                              InterfaceDeclaration(typeName \o "Response", TRUE, <<>>)
                   /\ IsObject(signature) <=>
                          \E i \in DOMAIN MethodInterfaces :
                              MethodInterfaces[i].name = typeName \o "Parameters"
                   /\ \A i \in DOMAIN MethodInterfaces :
                          MethodInterfaces[i].name = typeName \o "Parameters" =>
                              MethodInterfaces[i].members
                                  = ParameterFields(headings[k], n)
                   /\ MethodRequests[k].response = TypeReference(typeName \o "Response")
                   /\ MethodRequests[k].parameters =
                          (IF HasStringArgument(signature)
                           THEN <<KeywordType("string")>> ELSE <<>>)
                          \o (IF IsObject(signature)
                              THEN <<TypeReference(typeName \o "Parameters")>>
                              ELSE <<>>)

StripPrefix(internalName) ==
    IF Char(internalName, 1) = "_" THEN Slice(internalName, 2, Len(internalName))
    ELSE internalName

\* an export entry gives back the name its internal name was made from
RoundTrips(specifier) ==
    /\ specifier.propertyName = "_" \o specifier.name
    /\ StripPrefix(specifier.propertyName) = specifier.name

\* the modules of the declaration file and its final export list
ProducedModules == SelectSeq(statements, LAMBDA st : st.kind = "namespace")
FinalExports == statements[Len(statements)]

\* the methods of a module: each request declaration is followed by the
\* export of its name, and nothing else is exported
MethodsRoundTrip(module) ==
    \A j \in DOMAIN module.statements :
        /\ module.statements[j].kind = "const" =>
               /\ j < Len(module.statements)
               /\ module.statements[j + 1].kind = "export"
               /\ Len(module.statements[j + 1].specifiers) = 1
               /\ module.statements[j + 1].specifiers[1].propertyName
                      = module.statements[j].name
               /\ RoundTrips(module.statements[j + 1].specifiers[1])
        /\ module.statements[j].kind = "export" =>
               j > 1 /\ module.statements[j - 1].kind = "const"

\* C26: every module is declared under "_" and its namespace name, and the
\* export list that ends the statements holds one entry per module, in the
\* order of the modules, from the internal name back to the namespace
\* name; inside a module every method is declared under "_" and its name
\* and exported under its name.
PrefixRoundTrip ==
    pc \in {"write", "done"} =>
        /\ FinalExports.kind = "export"
        /\ Len(SelectSeq(statements, LAMBDA st : st.kind = "export")) = 1
        /\ Len(FinalExports.specifiers) = Len(ProducedModules)
        /\ Len(ProducedModules) = Len(extracted)
        /\ \A i \in DOMAIN ProducedModules :
               /\ FinalExports.specifiers[i].propertyName = ProducedModules[i].name
               /\ RoundTrips(FinalExports.specifiers[i])
               /\ MethodsRoundTrip(ProducedModules[i])

\* two modules, the second with the methods delete and list
PrefixWitness ==
    /\ pc = "done"
    /\ Len(ProducedModules) = 2
    /\ FinalExports.specifiers
           = <<ExportSpecifier("_customer", "customer"),
               ExportSpecifier("_subscription", "subscription")>>
    /\ \E j \in DOMAIN ProducedModules[2].statements :
           /\ ProducedModules[2].statements[j].kind = "const"
           /\ ProducedModules[2].statements[j].name = "_delete"
           /\ ProducedModules[2].statements[j + 1].specifiers
                  = <<ExportSpecifier("_delete", "delete")>>

(***************************************************************************)
(* The error namespace of the declaration file.                            *)
(***************************************************************************)
\* the error namespace of the file written: the first statement of the
\* namespace Chargebee
ErrorNamespace == definitionFile[1].formatted.statements[1].statements[1]

\* its interfaces that extend another, and the one called by a name
ErrorInterfaces ==
    SelectSeq(ErrorNamespace.statements,
              LAMBDA st : st.kind = "interface" /\ "extends" \in DOMAIN st)

Declared(name) ==
    SelectSeq(ErrorNamespace.statements,
              LAMBDA st : st.kind = "interface" /\ st.name = name)

MembersNamed(interface, name) ==
    SelectSeq(interface.members, LAMBDA m : m.name = name)

\* the discriminants of the six kinds of error
ErrorTypes ==
    {"payment", "invalid_request", "operation_failed", "io_error",
     "client_error", "misc"}

\* the literal of the type member of an error interface, if it has one
Discriminant(interface) ==
    LET types == MembersNamed(interface, "type")
    IN  IF /\ Len(types) = 1 /\ ~types[1].optional
           /\ types[1].type.kind = "union" /\ Len(types[1].type.literals) = 1
        THEN Some(types[1].type.literals[1]) ELSE None

\* six error interfaces that extend the base {message, param?}, the error
\* codes of an interface a union of literals, one entry of the map per
\* interface
SixErrorInterfaces ==
    /\ ErrorNamespace.name = "error"
    /\ Len(ErrorInterfaces) = 6
    /\ Declared("ErrorObjectBase")
           = <<InterfaceDeclaration("ErrorObjectBase", FALSE,
                   <<PropertySignature("message", FALSE, KeywordType("string")),
                     PropertySignature("param", TRUE, KeywordType("string"))>>)>>
    /\ \A i \in DOMAIN ErrorInterfaces :
           /\ ErrorInterfaces[i].extends = "ErrorObjectBase"
           /\ \A k \in DOMAIN ErrorInterfaces[i].members :
                  ErrorInterfaces[i].members[k].name \in {"type", "api_error_code"}
           /\ \A k \in DOMAIN MembersNamed(ErrorInterfaces[i], "api_error_code") :
                  LET codes == MembersNamed(ErrorInterfaces[i], "api_error_code")[k]
                  IN  /\ codes.type.kind = "union"
                      /\ Len(codes.type.literals) >= 1
                      /\ ~codes.optional
    /\ Len(Declared("ErrorObjectMap")) = 1
    /\ Declared("ErrorObjectMap")[1].members
           = [i \in DOMAIN ErrorInterfaces |->
                 PropertySignature(ErrorInterfaces[i].name, FALSE,
                                   TypeReference(ErrorInterfaces[i].name))]

\* C27 as stated: the six error interfaces carry the six discriminants
\* payment, invalid_request, operation_failed, io_error, client_error and
\* misc, every interface one.
ErrorInterfacesAllTyped ==
    definitionFile # None =>
        /\ SixErrorInterfaces
        /\ \A i \in DOMAIN ErrorInterfaces : Discriminant(ErrorInterfaces[i]) # None
        /\ {Discriminant(ErrorInterfaces[i])[1] : i \in DOMAIN ErrorInterfaces}
               = ErrorTypes

\* C27: the error namespace holds six error interfaces that extend the
\* base {message, param?}; the five for payment, invalid_request,
\* operation_failed, io_error and client_error carry that literal as their
\* type, MiscErrorObject has no type member; the interfaces with known
\* error codes carry a union of literal codes (io_error and client_error
\* have none); the error map has one entry per error interface.
ErrorInterfacesTypedButMisc ==
    definitionFile # None =>
        /\ SixErrorInterfaces
        /\ [i \in DOMAIN ErrorInterfaces |-> ErrorInterfaces[i].name]
               = <<"PaymentErrorObject", "InvalidRequestErrorObject",
                   "OperationFailedErrorObject", "IOErrorErrorObject",
                   "ClientErrorErrorObject", "MiscErrorObject">>
        /\ [i \in 1..5 |-> Discriminant(ErrorInterfaces[i])]
               = <<Some("payment"), Some("invalid_request"),
                   Some("operation_failed"), Some("io_error"), Some("client_error")>>
        /\ MembersNamed(ErrorInterfaces[6], "type") = <<>>
        /\ {i \in DOMAIN ErrorInterfaces :
                MembersNamed(ErrorInterfaces[i], "api_error_code") = <<>>} = {4, 5}

\* a file was written: its MiscErrorObject holds its four error codes and
\* nothing else
ErrorNamespaceWitness ==
    /\ definitionFile # None
    /\ pc = "done"
    /\ Len(ErrorInterfaces) = 6
    /\ Len(ErrorInterfaces[6].members) = 1
    /\ ErrorInterfaces[6].members[1].name = "api_error_code"
    /\ Len(ErrorInterfaces[6].members[1].type.literals) = 4

(***************************************************************************)
(* The two files of a cached page.                                         *)
(***************************************************************************)
\* the tree files of a cache directory, and the raw-markup file of each
TreeFiles(files) ==
    {f \in DOMAIN files : Slice(f, Len(f) - 8, Len(f)) = ".ast.json"}
RawFileFor(treeFile) == Slice(treeFile, 1, Len(treeFile) - 9)

\* the tree a step that called getApiPage got back
IsReturnStep == IsRequestStep /\ pc' # "aborted"
ReturnedTree ==
    IF RequestedName = "" THEN indexPageTree'[1] ELSE modulePageTree'[1]

\* C28: from an empty cache directory on, through calls that succeed and
\* calls that fail, a tree file is in the directory only with the
\* raw-markup file of its page, and it holds the serialised parse of that
\* markup; the tree a successful call returns is the parse of the contents
\* it returns, which are those of the raw-markup file.
CacheCoherent ==
    /\ [](\A f \in TreeFiles(cacheFiles) :
              /\ RawFileFor(f) \in DOMAIN cacheFiles
              /\ cacheFiles[f] = JSONStringify(parseAst(cacheFiles[RawFileFor(f)])))
    /\ [][IsReturnStep =>
              /\ {RawFileOf(RequestedName), TreeFileOf(RequestedName)}
                     \subseteq DOMAIN cacheFiles'
              /\ Content(ReturnedTree)
                     = Content(parseAst(cacheFiles'[RawFileOf(RequestedName)]))]_vars

\* in a second run a resource page came back from its two cached files,
\* after a first run that ended on a failed retrieval of another page
CacheCoherentWitness ==
    /\ run = 2
    /\ pc = "extract"
    /\ io = <<>>
    /\ Len(requests) = 2
    /\ Cardinality(TreeFiles(cacheFiles)) = 2
    /\ firstOutput = None
    /\ Content(modulePageTree[1])
           = Content(parseAst(cacheFiles[RawFileOf(requests[2])]))

(***************************************************************************)
(* The two implementations of getAdjacentElement.                          *)
(***************************************************************************)
\* both implementations were called on the node and the parent
BothCalled == adjacentResult # None /\ adjacentIndexedResult # None

\* the node passed is an element: a child of the parent, or no child of it
ElementPassed == NodeAt(adjacentParent, adjacentPosition)[1].type = "element"

\* the first element child of the parent, if it has one
FirstElementChild ==
    LET elements == ElementsAfter(adjacentParent, 0)
    IN  IF elements = {} THEN None ELSE Some(adjacentParent.children[Min(elements)])

\* C29: for every parent and every element passed, the scan over all the
\* children and the lookup in the list of the element children return the
\* same; for an element that is no child of the parent both return the
\* first element child of the parent (none only when it has no element
\* child).
AdjacentVariantsAgree ==
    (BothCalled /\ ElementPassed) =>
        /\ adjacentResult = adjacentIndexedResult
        /\ adjacentPosition = 0 => adjacentResult[1] = FirstElementChild

\* an element of another tree was passed with a parent that holds a text,
\* then elements: both gave the first element child
AdjacentVariantsWitness ==
    /\ BothCalled
    /\ adjacentPosition = 0
    /\ Len(adjacentParent.children) = 3
    /\ adjacentParent.children[1].type = "text"
    /\ adjacentParent.children[2].type = "element"
    /\ adjacentResult[1] = Some(adjacentParent.children[2])
    /\ adjacentIndexedResult[1] = Some(adjacentParent.children[2])

(***************************************************************************)
(* The markers of a page with several candidates.                          *)
(***************************************************************************)
\* what follows the last dot of a code sample
AfterLastDot(value) ==
    LET dots == {i \in 1..Len(value) : Char(value, i) = "."}
    IN  IF dots = {} THEN value
        ELSE Slice(value, (CHOOSE d \in dots : \A e \in dots : e <= d) + 1,
                   Len(value))

\* the code samples of an element, in document order: the texts of a pre
\* with the prettyprint and lang-js classes that hold a letter, a dot or
\* an underscore
CodeSamples(element) ==
    LET places == SelectSeq(PlacesIn(element),
                      LAMBDA place : /\ NodeOf(place).type = "text"
                                     /\ HasNamespaceChar(NodeOf(place).value)
                                     /\ place.parent.tagName = "pre"
                                     /\ HasClass(place.parent, "prettyprint")
                                     /\ HasClass(place.parent, "lang-js"))
    IN  [i \in DOMAIN places |-> NodeOf(places[i]).value]

\* the "Model Class" headings that a code sample follows, in document order
ModelClassHeadings(tree) ==
    SelectSeq(PlacesIn(tree),
        LAMBDA place :
            /\ NodeOf(place).tagName = "h4"
            /\ \E i \in DOMAIN NodeOf(place).children :
                   /\ NodeOf(place).children[i].type = "text"
                   /\ NodeOf(place).children[i].value = "Model Class"
            /\ AdjacentTo(place) # None
            /\ CodeSamples(AdjacentTo(place)[1]) # <<>>)

\* the name the last code sample of the last such heading ends in
LastModelClassName(tree) ==
    LET headings == ModelClassHeadings(tree)
        samples == CodeSamples(AdjacentTo(headings[Len(headings)])[1])
    IN  AfterLastDot(samples[Len(samples)])

\* the exported interfaces of the module that carry the name of the model
PrimaryInterfaces(name) ==
    {i \in DOMAIN ModuleStatements :
        /\ ModuleStatements[i].kind = "interface"
        /\ ModuleStatements[i].exported
        /\ ModuleStatements[i].name = snakeCaseToPascalCase(name)}

\* C30: with several "Model Class" headings that a code sample follows,
\* the namespace is named after the last one in document order, and with
\* several "attributes" comments that a list group follows, the primary
\* interface holds the fields of the last list group; a page without such
\* a heading gives no module, and a module holds exactly one primary
\* interface, its first statement, however many candidates the page has.
LastMatchWins ==
    moduleResult # None =>
        LET headings == ModelClassHeadings(modulePage)
            lists == AttributeLists(modulePage)
        IN  /\ headings = <<>> =>
                   moduleResult[1].error = "Unable to determine namespace name."
            /\ ~Threw(moduleResult[1]) =>
                   /\ headings # <<>> /\ lists # <<>>
                   /\ moduleResult[1].value.namespaceName
                          = LastModelClassName(modulePage)
                   /\ moduleResult[1].value.namespaceStatement.name
                          = "_" \o LastModelClassName(modulePage)
                   /\ PrimaryInterfaces(LastModelClassName(modulePage)) = {1}
                   /\ PrimaryInterface.members
                          = FieldsOf(ChildFragments(lists[Len(lists)]), 1)

\* a page with two qualifying headings, customer then subscription, and
\* two list groups, of status then of id: the module is the one of
\* subscription with the single property id
LastMatchWitness ==
    /\ moduleResult # None /\ ~Threw(moduleResult[1])
    /\ Len(ModelClassHeadings(modulePage)) = 2
    /\ CodeSamples(AdjacentTo(ModelClassHeadings(modulePage)[1])[1])
           = <<"chargebee.customer">>
    /\ Len(AttributeLists(modulePage)) = 2
    /\ moduleResult[1].value.namespaceName = "subscription"
    /\ PrimaryInterface.name = "Subscription"
    /\ Len(PrimaryInterface.members) = 1
    /\ PrimaryInterface.members[1].name = "id"
    /\ FieldsOf(ChildFragments(AttributeLists(modulePage)[1]), 1)[1].name = "status"

====
